---------------------------- MODULE Spec2Model ----------------------------
(***************************************************************************)
(* A model of lithify's schema-graph core: the Document Graph Index        *)
(* (slas_schema_index.py) and the Refinement Collapser                     *)
(* (slas_allof_processor.py, utils.walk_schema_nodes).                     *)
(*                                                                         *)
(* Representation.  A Python str is a sequence of one-character strings,   *)
(* so that splitting, joining, escaping and URI resolution are computed    *)
(* and not assumed.  A schema node (a dict keyed by schema keywords) is a  *)
(* function whose domain is a set of keyword strings; the value under      *)
(* "properties", "$defs" and "definitions" is a name map, a function from  *)
(* names (character sequences) to nodes; the value under "allOf", "anyOf"  *)
(* and "oneOf" is a sequence of nodes.  Python's None is the value None.   *)
(***************************************************************************)
EXTENDS Integers, Sequences, FiniteSets, TLC

VARIABLES
    mode,            \* which entry point this behaviour exercises: "collapse" or "index"
    files,           \* json_dir: file name -> parsed document (the files on disk)
    base_url,        \* the base_url argument of SchemaIndex.load (<<>> when not given)
    strict,          \* the strict argument of process_allof_collapse
    index,           \* the local variable index of process_allof_collapse / the loaded SchemaIndex
    caller_index,    \* the index object the caller passed in (never rebound by the callee)
    pc,              \* position inside process_allof_collapse / the index scenario
    run,             \* 1: the first call of process_allof_collapse, 2: a second call on its output
    rerun_index,     \* which index the second call is given: "caller" or "reloaded"
    iteration,       \* the loop variable of `for iteration in range(max_iterations)`
    todo,            \* the files of sorted(json_dir.glob("*.json")) not yet visited in this pass
    errors,          \* the list errors of the current pass
    iteration_collapsed,
    total_collapsed,
    inline_allofs,
    warned,          \* the warnings.warn calls made so far (a set of warning records)
    step_events,     \* the chains collapsed by the latest ProcessFile step
    step_failures,   \* the chains that raised ValueError in the latest ProcessFile step
    loop_end,        \* how the pass loop ended: "fixpoint" (break) or "bound" (exhausted)
    first_run,       \* what the first call left behind: its files and how it ended
    query,           \* index scenario: the latest lookup made
    answer,          \* index scenario: what the lookup returned, as a record
    slas             \* what the alias synthesis and the field mapping have produced

vars == <<mode, files, base_url, strict, index, caller_index, pc, run, rerun_index,
          iteration, todo, errors, iteration_collapsed, total_collapsed,
          inline_allofs, warned, step_events, step_failures, loop_end, first_run,
          query, answer, slas>>

-----------------------------------------------------------------------------
(* Python values *)

None == [none |-> TRUE]
IsNone(v) == DOMAIN v = {"none"}

EmptyDict == [k \in {} |-> TRUE]

Has(node, key) == key \in DOMAIN node

-----------------------------------------------------------------------------
(* str operations *)

RECURSIVE Find(_, _, _)
\* s.find(c) from position i on, for a one-character c: the first position, or 0
Find(s, c, i) ==
    IF i > Len(s) THEN 0
    ELSE IF s[i] = c THEN i
    ELSE Find(s, c, i + 1)

Contains(s, c) == Find(s, c, 1) # 0

StartsWith(s, p) == Len(s) >= Len(p) /\ SubSeq(s, 1, Len(p)) = p

From(s, i) == SubSeq(s, i, Len(s))

RECURSIVE HasSubstring(_, _, _)
HasSubstring(s, p, i) ==
    IF i + Len(p) - 1 > Len(s) THEN FALSE
    ELSE IF SubSeq(s, i, i + Len(p) - 1) = p THEN TRUE
    ELSE HasSubstring(s, p, i + 1)

\* `p in s`
InStr(p, s) == HasSubstring(s, p, 1)

RECURSIVE Split(_, _)
\* s.split(c): always at least one part
Split(s, c) ==
    LET i == Find(s, c, 1) IN
    IF i = 0 THEN <<s>>
    ELSE <<SubSeq(s, 1, i - 1)>> \o Split(From(s, i + 1), c)

\* s.split(c, 1)
Split1(s, c) ==
    LET i == Find(s, c, 1) IN
    IF i = 0 THEN <<s>> ELSE <<SubSeq(s, 1, i - 1), From(s, i + 1)>>

RECURSIVE Join(_, _)
\* c.join(parts)
Join(parts, c) ==
    IF Len(parts) = 0 THEN <<>>
    ELSE IF Len(parts) = 1 THEN parts[1]
    ELSE parts[1] \o <<c>> \o Join(Tail(parts), c)

RECURSIVE Replace2(_, _, _)
\* s.replace(old, new) for a two-character old
Replace2(s, old, new) ==
    IF Len(s) < 2 THEN s
    ELSE IF SubSeq(s, 1, 2) = old THEN new \o Replace2(From(s, 3), old, new)
    ELSE <<s[1]>> \o Replace2(Tail(s), old, new)

RECURSIVE Replace1(_, _, _)
\* s.replace(c, new) for a one-character c
Replace1(s, c, new) ==
    IF Len(s) = 0 THEN s
    ELSE IF s[1] = c THEN new \o Replace1(Tail(s), c, new)
    ELSE <<s[1]>> \o Replace1(Tail(s), c, new)

RECURSIVE LStrip(_, _)
\* s.lstrip(chars)
LStrip(s, chars) ==
    IF Len(s) > 0 /\ s[1] \in chars THEN LStrip(Tail(s), chars) ELSE s

RECURSIVE RStrip(_, _)
RStrip(s, chars) ==
    IF Len(s) > 0 /\ s[Len(s)] \in chars THEN RStrip(SubSeq(s, 1, Len(s) - 1), chars) ELSE s

Digits == <<"0", "1", "2", "3", "4", "5", "6", "7", "8", "9">>

IsDigit(c) == \E i \in 1..10 : Digits[i] = c

\* int(c) for a digit character
DigitValue(c) == (CHOOSE i \in 1..10 : Digits[i] = c) - 1

RECURSIVE ParseInt(_, _)
\* int(tok) for a decimal token; None when int() raises ValueError
ParseInt(tok, acc) ==
    IF Len(tok) = 0 THEN acc
    ELSE IF ~IsDigit(tok[1]) THEN -1
    ELSE ParseInt(Tail(tok), acc * 10 + DigitValue(tok[1]))

RECURSIVE Str(_)
\* str(n) for n >= 0
Str(n) == IF n < 10 THEN <<Digits[n + 1]>> ELSE Str(n \div 10) \o <<Digits[(n % 10) + 1]>>

LowerCase == <<"a", "b", "c", "d", "e", "f", "g", "h", "i", "j", "k", "l", "m",
               "n", "o", "p", "q", "r", "s", "t", "u", "v", "w", "x", "y", "z">>
UpperCase == <<"A", "B", "C", "D", "E", "F", "G", "H", "I", "J", "K", "L", "M",
               "N", "O", "P", "Q", "R", "S", "T", "U", "V", "W", "X", "Y", "Z">>

IsAlpha(c) == \E i \in 1..26 : LowerCase[i] = c \/ UpperCase[i] = c

\* s.lower()
Lower(s) ==
    [i \in 1..Len(s) |->
        IF \E j \in 1..26 : UpperCase[j] = s[i]
        THEN LowerCase[CHOOSE j \in 1..26 : UpperCase[j] = s[i]]
        ELSE s[i]]

-----------------------------------------------------------------------------
(* urllib.parse, as called by slas_schema_index.py.  Parameters (";") are  *)
(* left out: no URI of the model contains ";".                             *)

S_http == <<"h", "t", "t", "p">>
S_https == <<"h", "t", "t", "p", "s">>
S_file == <<"f", "i", "l", "e">>

\* urllib.parse.uses_relative and uses_netloc, cut to the schemes the model's URIs use
uses_relative == {<<>>, S_http, S_https, S_file}
uses_netloc == {<<>>, S_http, S_https, S_file}

scheme_chars == {LowerCase[i] : i \in 1..26} \cup {UpperCase[i] : i \in 1..26}
                \cup {Digits[i] : i \in 1..10} \cup {"+", "-", "."}

RECURSIVE FindAny(_, _, _)
\* the first position from i on of a character of cs, or Len(s) + 1
FindAny(s, cs, i) ==
    IF i > Len(s) THEN Len(s) + 1
    ELSE IF s[i] \in cs THEN i
    ELSE FindAny(s, cs, i + 1)

\* `x = v`, followed by the code F that reads x: v is evaluated, then F
With(v, F(_)) == CHOOSE r \in {F(x) : x \in {v}} : TRUE

\* the scheme test of urlsplit: url[:i] is a scheme when it starts with a
\* letter and holds scheme characters only
has_scheme(url, i) ==
    /\ i > 1
    /\ IsAlpha(url[1])
    /\ \A k \in 1..(i - 1) : url[k] \in scheme_chars

\* `if '?' in url: url, query = url.split('?', 1)` and the result of urlsplit
split_query(scheme, netloc, url, fragment) ==
    With(Split1(url, "?"), LAMBDA q :
        [scheme |-> scheme, netloc |-> netloc, path |-> q[1],
         query |-> IF Len(q) = 2 THEN q[2] ELSE <<>>, fragment |-> fragment])

\* `if '#' in url: url, fragment = url.split('#', 1)`
split_fragment(scheme, netloc, url) ==
    With(Split1(url, "#"), LAMBDA f :
        split_query(scheme, netloc, f[1], IF Len(f) = 2 THEN f[2] ELSE <<>>))

\* `if url[:2] == '//': netloc, url = _splitnetloc(url, 2)`
split_netloc(scheme, url) ==
    IF Len(url) >= 2 /\ SubSeq(url, 1, 2) = <<"/", "/">>
    THEN With(FindAny(url, {"/", "?", "#"}, 3), LAMBDA delim :
            split_fragment(scheme, SubSeq(url, 3, delim - 1), From(url, delim)))
    ELSE split_fragment(scheme, <<>>, url)

\* urlsplit(url, scheme): (scheme, netloc, path, query, fragment)
urlsplit(url, scheme) ==
    With(Find(url, ":", 1), LAMBDA i :
        IF has_scheme(url, i)
        THEN split_netloc(Lower(SubSeq(url, 1, i - 1)), From(url, i + 1))
        ELSE split_netloc(scheme, url))

\* urlunsplit((scheme, netloc, url, query, fragment))
urlunsplit(p) ==
    (IF p.scheme # <<>> THEN p.scheme \o <<":">> ELSE <<>>)
    \o (IF p.netloc # <<>>
           \/ (p.scheme # <<>> /\ p.scheme \in uses_netloc
               /\ ~StartsWith(p.path, <<"/", "/">>))
        THEN <<"/", "/">> \o p.netloc
             \o (IF p.path # <<>> /\ p.path[1] # "/" THEN <<"/">> ELSE <<>>)
        ELSE <<>>)
    \o p.path
    \o (IF p.query # <<>> THEN <<"?">> \o p.query ELSE <<>>)
    \o (IF p.fragment # <<>> THEN <<"#">> \o p.fragment ELSE <<>>)

RECURSIVE RemoveDots(_, _)
\* the loop of urljoin over segments: ".." pops, "." is skipped
RemoveDots(segments, resolved) ==
    IF Len(segments) = 0 THEN resolved
    ELSE IF segments[1] = <<".", ".">>
    THEN RemoveDots(Tail(segments), SubSeq(resolved, 1, Len(resolved) - 1))
    ELSE IF segments[1] = <<".">> THEN RemoveDots(Tail(segments), resolved)
    ELSE RemoveDots(Tail(segments), Append(resolved, segments[1]))

\* segments[1:-1] = filter(None, segments[1:-1])
FilterMiddle(segments) ==
    IF Len(segments) <= 2 THEN segments
    ELSE <<segments[1]>>
         \o SelectSeq(SubSeq(segments, 2, Len(segments) - 1), LAMBDA x : x # <<>>)
         \o <<segments[Len(segments)]>>

\* base_parts of urljoin: the segments of the base path without its last one
\* when that one is not empty
base_parts_of(bp) == IF bp[Len(bp)] # <<>> THEN SubSeq(bp, 1, Len(bp) - 1) ELSE bp

\* the path urljoin puts together from the segments
join_segments(segments) ==
    With(RemoveDots(segments, <<>>)
         \o (IF segments[Len(segments)] \in {<<".">>, <<".", ".">>} THEN <<<<>>>> ELSE <<>>),
         LAMBDA resolved :
            IF Join(resolved, "/") = <<>> THEN <<"/">> ELSE Join(resolved, "/"))

\* urljoin once both URLs are split into b and u
join_split(url, b, u) ==
    IF u.scheme # b.scheme \/ u.scheme \notin uses_relative THEN url
    ELSE IF u.scheme \in uses_netloc /\ u.netloc # <<>> THEN urlunsplit(u)
    ELSE urlunsplit(
        [scheme |-> u.scheme,
         netloc |-> IF u.scheme \in uses_netloc THEN b.netloc ELSE u.netloc,
         path |-> IF u.path = <<>> THEN b.path
                  ELSE IF u.path[1] = "/" THEN join_segments(Split(u.path, "/"))
                  ELSE join_segments(FilterMiddle(base_parts_of(Split(b.path, "/"))
                                                  \o Split(u.path, "/"))),
         query |-> IF u.path = <<>> /\ u.query = <<>> THEN b.query ELSE u.query,
         fragment |-> u.fragment])

\* urllib.parse.urljoin(base, url)
urljoin(base, url) ==
    IF base = <<>> THEN url
    ELSE IF url = <<>> THEN base
    ELSE With(urlsplit(base, <<>>), LAMBDA b :
            join_split(url, b, urlsplit(url, b.scheme)))

\* urllib.parse.urldefrag(url): (url without fragment, fragment)
urldefrag(url) ==
    IF Contains(url, "#")
    THEN With(urlsplit(url, <<>>), LAMBDA p :
            <<urlunsplit([p EXCEPT !.fragment = <<>>]), p.fragment>>)
    ELSE <<url, <<>>>>
-----------------------------------------------------------------------------
(* Schema documents *)

\* The spelling of every keyword a node of the model can carry.
Spell ==
    ("$id" :> <<"$", "i", "d">>) @@
    ("$ref" :> <<"$", "r", "e", "f">>) @@
    ("$anchor" :> <<"$", "a", "n", "c", "h", "o", "r">>) @@
    ("$defs" :> <<"$", "d", "e", "f", "s">>) @@
    ("definitions" :> <<"d", "e", "f", "i", "n", "i", "t", "i", "o", "n", "s">>) @@
    ("properties" :> <<"p", "r", "o", "p", "e", "r", "t", "i", "e", "s">>) @@
    ("additionalProperties" :> <<"a", "d", "d", "i", "t", "i", "o", "n", "a", "l",
                                 "P", "r", "o", "p", "e", "r", "t", "i", "e", "s">>) @@
    ("items" :> <<"i", "t", "e", "m", "s">>) @@
    ("allOf" :> <<"a", "l", "l", "O", "f">>) @@
    ("anyOf" :> <<"a", "n", "y", "O", "f">>) @@
    ("oneOf" :> <<"o", "n", "e", "O", "f">>) @@
    ("not" :> <<"n", "o", "t">>) @@
    ("title" :> <<"t", "i", "t", "l", "e">>) @@
    ("type" :> <<"t", "y", "p", "e">>) @@
    ("pattern" :> <<"p", "a", "t", "t", "e", "r", "n">>) @@
    ("format" :> <<"f", "o", "r", "m", "a", "t">>) @@
    ("enum" :> <<"e", "n", "u", "m">>) @@
    ("const" :> <<"c", "o", "n", "s", "t">>) @@
    ("minLength" :> <<"m", "i", "n", "L", "e", "n", "g", "t", "h">>) @@
    ("maxLength" :> <<"m", "a", "x", "L", "e", "n", "g", "t", "h">>) @@
    ("minimum" :> <<"m", "i", "n", "i", "m", "u", "m">>) @@
    ("maximum" :> <<"m", "a", "x", "i", "m", "u", "m">>) @@
    ("exclusiveMinimum" :> <<"e", "x", "c", "l", "u", "s", "i", "v", "e",
                             "M", "i", "n", "i", "m", "u", "m">>) @@
    ("exclusiveMaximum" :> <<"e", "x", "c", "l", "u", "s", "i", "v", "e",
                             "M", "a", "x", "i", "m", "u", "m">>) @@
    ("multipleOf" :> <<"m", "u", "l", "t", "i", "p", "l", "e", "O", "f">>) @@
    ("x-python-class-name" :> <<"x", "-", "p", "y", "t", "h", "o", "n", "-",
                                "c", "l", "a", "s", "s", "-", "n", "a", "m", "e">>) @@
    ("_validator_patterns" :> <<"_", "v", "a", "l", "i", "d", "a", "t", "o", "r", "_",
                                "p", "a", "t", "t", "e", "r", "n", "s">>)

Keywords == DOMAIN Spell

\* What the value under a keyword is in a schema document: a name map (a dict of
\* subschemas), a list of subschemas, a single subschema, or anything else.
ValueKind(key) ==
    IF key \in {"$defs", "definitions", "properties"} THEN "namemap"
    ELSE IF key \in {"allOf", "anyOf", "oneOf"} THEN "list"
    ELSE IF key \in {"items", "additionalProperties", "not"} THEN "node"
    ELSE "scalar"

\* the keyword a token spells, "" when it spells none
KeywordOf(tok) ==
    IF \E k \in Keywords : Spell[k] = tok
    THEN CHOOSE k \in Keywords : Spell[k] = tok
    ELSE ""

\* cur[int(tok)] for a list
ListItem(cur, tok, idx) ==
    IF Len(tok) = 0 \/ idx < 0 THEN [exc |-> "ValueError"]
    ELSE IF idx + 1 > Len(cur) THEN [exc |-> "IndexError"]
    ELSE [exc |-> "", value |-> cur[idx + 1], kind |-> "node", key |-> Str(idx)]

\* cur[tok] for a schema node, kw being the keyword tok spells
NodeItem(cur, tok, kw) ==
    IF kw \in DOMAIN cur
    THEN [exc |-> "", value |-> cur[kw], kind |-> ValueKind(kw), key |-> tok]
    ELSE [exc |-> "KeyError"]

\* One step of container traversal, cur[tok]: the child, its kind and the key
\* that was used, or the exception Python raises.
Child(cur, kind, tok) ==
    IF kind = "list" THEN ListItem(cur, tok, ParseInt(tok, 0))
    ELSE IF kind = "namemap"
    THEN IF tok \in DOMAIN cur
         THEN [exc |-> "", value |-> cur[tok], kind |-> "node", key |-> tok]
         ELSE [exc |-> "KeyError"]
    ELSE IF kind = "node" THEN NodeItem(cur, tok, KeywordOf(tok))
    ELSE [exc |-> "KeyError"]

RECURSIVE Traverse(_, _, _, _)
RECURSIVE TraverseFrom(_, _, _)
\* cur[t1][t2]...[tn], with the keys used appended to path
Traverse(cur, kind, toks, path) ==
    IF Len(toks) = 0 THEN [exc |-> "", value |-> cur, kind |-> kind, path |-> path]
    ELSE TraverseFrom(Child(cur, kind, toks[1]), Tail(toks), path)

TraverseFrom(c, toks, path) ==
    IF c.exc # "" THEN [exc |-> c.exc]
    ELSE Traverse(c.value, c.kind, toks, Append(path, c.key))

\* A Python object of a parsed document is named by where it sits: the file it
\* was parsed from and the keys leading to it.  Two lookups return the same
\* object (the same id()) exactly when they return the same place.
Place(file, path) == [file |-> file, path |-> path]

\* The object at a place of a set of parsed documents, and its kind.
At(parsed, place) == Traverse(parsed[place.file], "node", place.path, <<>>)
Deref(parsed, place) == At(parsed, place).value

\* RFC 6901 escaping of one key, as _index_tree and walk_schema_nodes do it
escape(name) == Replace1(Replace1(name, "~", <<"~", "0">>), "/", <<"~", "1">>)

\* unescape(token) of resolve_pointer
unescape(token) == Replace2(Replace2(token, <<"~", "1">>, <<"/">>), <<"~", "0">>, <<"~">>)

\* parts of resolve_pointer, each one unescaped
pointer_tokens(pointer) ==
    With(IF pointer[1] = "#" THEN Tail(pointer) ELSE pointer, LAMBDA p :
    With(IF StartsWith(p, <<"/">>) THEN Tail(Split(p, "/")) ELSE Split(p, "/"), LAMBDA parts :
        [i \in 1..Len(parts) |-> unescape(parts[i])]))

\* the result of the loop of resolve_pointer, started at the object `doc` at `place`
pointer_result(place, doc, toks) ==
    With(Traverse(doc.value, doc.kind, toks, place.path), LAMBDA r :
        IF r.exc # "" THEN [exc |-> r.exc]
        ELSE [exc |-> "", place |-> Place(place.file, r.path)])

\* resolve_pointer(doc, pointer), doc being the object at `place`: the place the
\* pointer leads to, or the exception raised
resolve_pointer(parsed, place, pointer) ==
    IF pointer = <<>> \/ pointer = <<"#">> THEN [exc |-> "", place |-> place]
    ELSE pointer_result(place, At(parsed, place), pointer_tokens(pointer))
\* resolve_uri(base, ref): (absolute URI without fragment, fragment)
resolve_uri(base, ref) ==
    With(urldefrag(urljoin(base, ref)), LAMBDA d :
        <<d[1], IF d[2] # <<>> THEN <<"#">> \o d[2] ELSE <<>>>>)

-----------------------------------------------------------------------------
(* Ordering of str values (sorted(), sort_keys=True) *)

\* The characters of names, file names and enum values, in code point order.
CodePointOrder ==
    <<"#", "$", "-", ".", "/",
      "0", "1", "2", "3", "4", "5", "6", "7", "8", "9", ":",
      "A", "B", "C", "D", "E", "F", "G", "H", "I", "J", "K", "L", "M",
      "N", "O", "P", "Q", "R", "S", "T", "U", "V", "W", "X", "Y", "Z", "_",
      "a", "b", "c", "d", "e", "f", "g", "h", "i", "j", "k", "l", "m",
      "n", "o", "p", "q", "r", "s", "t", "u", "v", "w", "x", "y", "z", "~">>

Ord(c) == CHOOSE i \in 1..Len(CodePointOrder) : CodePointOrder[i] = c

RECURSIVE StrLess(_, _)
\* a < b for two str values
StrLess(a, b) ==
    IF Len(b) = 0 THEN FALSE
    ELSE IF Len(a) = 0 THEN TRUE
    ELSE IF a[1] = b[1] THEN StrLess(Tail(a), Tail(b))
    ELSE Ord(a[1]) < Ord(b[1])

RECURSIVE Sorted(_)
\* sorted(S) for a set of str values
Sorted(S) ==
    IF S = {} THEN <<>>
    ELSE LET m == CHOOSE x \in S : \A y \in S \ {x} : StrLess(x, y) IN
         <<m>> \o Sorted(S \ {m})

\* The keys of a dict in the order the model iterates them.  Documents are
\* taken as stored with sorted keys, the order json.dump(sort_keys=True) of
\* process_allof_collapse writes.
Keys(d) == Sorted(DOMAIN d)

\* d[k] = v
Put(d, k, v) == [x \in DOMAIN d \cup {k} |-> IF x = k THEN v ELSE d[x]]

-----------------------------------------------------------------------------
(* validation.validate_class_name_override *)

PythonKeywords == {<<"i", "f">>, <<"i", "n">>, <<"i", "s">>, <<"o", "r">>,
                   <<"d", "e", "f">>, <<"n", "o", "t">>, <<"c", "l", "a", "s", "s">>}

\* str.isidentifier()
isidentifier(name) ==
    /\ Len(name) > 0
    /\ (IsAlpha(name[1]) \/ name[1] = "_")
    /\ \A i \in 1..Len(name) : IsAlpha(name[i]) \/ IsDigit(name[i]) \/ name[i] = "_"

\* TRUE when validate_class_name_override(name, path) raises ValueError
class_name_override_invalid(name) ==
    \/ name = <<>>
    \/ ~isidentifier(name)
    \/ name[1] = "_"
    \/ name \in PythonKeywords

-----------------------------------------------------------------------------
(* slas_schema_index.SchemaIndex *)

S_lithify == <<"l", "i", "t", "h", "i", "f", "y", ":", "/", "/", "/">>
S_json == <<".", "j", "s", "o", "n">>

\* path.name: the last component of a path below json_dir
PathName(path) ==
    IF \E i \in 1..Len(path) : path[i] = "/"
    THEN From(path, 1 + CHOOSE i \in 1..Len(path) :
                        /\ path[i] = "/"
                        /\ \A j \in (i + 1)..Len(path) : path[j] # "/")
    ELSE path

\* path.stem of a file
Stem(path) ==
    With(PathName(path), LAMBDA name :
        IF Len(name) > 5 /\ From(name, Len(name) - 4) = S_json
        THEN SubSeq(name, 1, Len(name) - 5) ELSE name)

\* the keys of a dict in insertion order, once key is set: a key already
\* there keeps its position
Ordered(order, key) ==
    IF \E i \in 1..Len(order) : order[i] = key THEN order ELSE Append(order, key)

\* SchemaIndex(): the empty index.  parsed holds the documents json.load
\* returned, so that the index keeps the objects it was built from.
NewIndex(url) ==
    [parsed |-> EmptyDict, docs |-> EmptyDict, anchors |-> EmptyDict,
     pointers |-> EmptyDict, subschema_bases |-> EmptyDict,
     origin_files |-> EmptyDict, class_name_overrides |-> EmptyDict,
     doc_order |-> <<>>, base_url |-> url, exited |-> FALSE]

\* the class-name override part of _index_tree; typer.Exit is kept as `exited`
register_override(ix, node, doc_uri) ==
    IF Has(node, "title") /\ Has(node, "x-python-class-name")
       /\ node["x-python-class-name"] # <<>>
    THEN IF doc_uri \in DOMAIN ix.origin_files
            /\ class_name_override_invalid(node["x-python-class-name"])
         THEN [ix EXCEPT !.exited = TRUE]
         ELSE [ix EXCEPT !.class_name_overrides =
                            Put(@, node["title"], node["x-python-class-name"])]
    ELSE ix

\* `"$id" in node and pointer`
is_nested_id(node, pointer) == Has(node, "$id") /\ pointer # <<>>

\* the tables _index_tree writes for the node itself
register_node(ix, place, node, doc_uri, base_uri, pointer) ==
    [ix EXCEPT
        !.docs = IF is_nested_id(node, pointer) THEN Put(@, base_uri, place) ELSE @,
        !.doc_order = IF is_nested_id(node, pointer) THEN Ordered(@, base_uri) ELSE @,
        !.subschema_bases = Put(@, place, base_uri),
        !.pointers = IF pointer # <<>> THEN Put(@, doc_uri \o <<"#">> \o pointer, place) ELSE @,
        !.anchors = IF Has(node, "$anchor")
                    THEN Put(@, doc_uri \o <<"#">> \o node["$anchor"], place) ELSE @]

RECURSIVE index_tree(_, _, _, _, _)
RECURSIVE IndexNameMap(_, _, _, _, _, _, _, _)
RECURSIVE IndexKeys(_, _, _, _, _, _, _)
RECURSIVE IndexList(_, _, _, _, _, _, _, _)
RECURSIVE IndexLists(_, _, _, _, _, _, _)

\* the loops `for name, subschema in node[key].items()` of _index_tree;
\* escaped says whether the name is escaped in the pointer (properties) or
\* used as it is ($defs, definitions)
IndexNameMap(ix, place, key, names, escaped, doc_uri, base_uri, pointer) ==
    IF Len(names) = 0 THEN ix
    ELSE With(index_tree(ix, Place(place.file, place.path \o <<Spell[key], names[1]>>),
                         doc_uri, base_uri,
                         pointer \o <<"/">> \o Spell[key] \o <<"/">>
                         \o (IF escaped THEN escape(names[1]) ELSE names[1])),
              LAMBDA ix1 :
                IndexNameMap(ix1, place, key, Tail(names), escaped, doc_uri, base_uri, pointer))

\* the names of node[key], none when the key is absent
NamesOf(node, key) == IF Has(node, key) THEN Keys(node[key]) ELSE <<>>

\* the loop over "items", ..., "not" of _index_tree
IndexKeys(ix, place, node, keys, doc_uri, base_uri, pointer) ==
    IF Len(keys) = 0 THEN ix
    ELSE With(IF Has(node, keys[1])
              THEN index_tree(ix, Place(place.file, Append(place.path, Spell[keys[1]])),
                              doc_uri, base_uri, pointer \o <<"/">> \o Spell[keys[1]])
              ELSE ix,
              LAMBDA ix1 :
                IndexKeys(ix1, place, node, Tail(keys), doc_uri, base_uri, pointer))

\* the loop `for i, subschema in enumerate(node[key])` of _index_tree
IndexList(ix, place, key, i, n, doc_uri, base_uri, pointer) ==
    IF i >= n THEN ix
    ELSE With(index_tree(ix, Place(place.file, place.path \o <<Spell[key], Str(i)>>),
                         doc_uri, base_uri,
                         pointer \o <<"/">> \o Spell[key] \o <<"/">> \o Str(i)),
              LAMBDA ix1 :
                IndexList(ix1, place, key, i + 1, n, doc_uri, base_uri, pointer))

\* the loop over "allOf", "anyOf", "oneOf" of _index_tree
IndexLists(ix, place, node, keys, doc_uri, base_uri, pointer) ==
    IF Len(keys) = 0 THEN ix
    ELSE With(IF Has(node, keys[1])
              THEN IndexList(ix, place, keys[1], 0, Len(node[keys[1]]),
                             doc_uri, base_uri, pointer)
              ELSE ix,
              LAMBDA ix1 :
                IndexLists(ix1, place, node, Tail(keys), doc_uri, base_uri, pointer))

\* the children loops of _index_tree, in its order
index_children(ix, place, node, doc_uri, base_uri, pointer) ==
    With(IndexNameMap(ix, place, "$defs", NamesOf(node, "$defs"), FALSE,
                      doc_uri, base_uri, pointer), LAMBDA ix1 :
    With(IndexNameMap(ix1, place, "definitions", NamesOf(node, "definitions"), FALSE,
                      doc_uri, base_uri, pointer), LAMBDA ix2 :
    With(IndexNameMap(ix2, place, "properties", NamesOf(node, "properties"), TRUE,
                      doc_uri, base_uri, pointer), LAMBDA ix3 :
    With(IndexKeys(ix3, place, node, <<"items", "additionalProperties", "not">>,
                   doc_uri, base_uri, pointer), LAMBDA ix4 :
        IndexLists(ix4, place, node, <<"allOf", "anyOf", "oneOf">>,
                   doc_uri, base_uri, pointer)))))

\* _index_tree after the override check, with the base URI of the subtree
index_node(ix, place, node, doc_uri, base_uri, pointer) ==
    IF ix.exited THEN ix
    ELSE With(register_node(ix, place, node, doc_uri, base_uri, pointer), LAMBDA ix1 :
            index_children(ix1, place, node, doc_uri, base_uri, pointer))

\* SchemaIndex._index_tree(node, doc_uri, base_uri, pointer), node being the
\* object at `place`
index_tree(ix, place, doc_uri, base_uri, pointer) ==
    IF ix.exited THEN ix
    ELSE With(Deref(ix.parsed, place), LAMBDA node :
            index_node(register_override(ix, node, doc_uri), place, node, doc_uri,
                       IF is_nested_id(node, pointer)
                       THEN urljoin(base_uri, node["$id"]) ELSE base_uri,
                       pointer))

\* the document URI SchemaIndex.load gives the document of file `name`
doc_uri_of(doc, name, url) ==
    IF Has(doc, "$id") THEN doc["$id"]
    ELSE IF url # <<>> THEN urljoin(url, PathName(name))
    ELSE S_lithify \o Stem(name) \o S_json

\* the body of the loop of SchemaIndex.load once doc_uri is known
register_doc(ix, name, doc, doc_uri) ==
    index_tree([ix EXCEPT !.parsed = Put(@, name, doc),
                          !.docs = Put(@, doc_uri, Place(name, <<>>)),
                          !.doc_order = Ordered(@, doc_uri),
                          !.origin_files = Put(@, doc_uri, name)],
               Place(name, <<>>), doc_uri, doc_uri, <<>>)

\* one turn of the loop `for path in sorted(paths)` of SchemaIndex.load
load_file(ix, name, doc) == register_doc(ix, name, doc, doc_uri_of(doc, name, ix.base_url))

RECURSIVE load_all(_, _, _)
load_all(ix, names, dir) ==
    IF Len(names) = 0 \/ ix.exited THEN ix
    ELSE With(load_file(ix, names[1], dir[names[1]]), LAMBDA ix1 :
            load_all(ix1, Tail(names), dir))

\* SchemaIndex.load(paths, base_url), paths being every file of dir
load(dir, url) == load_all(NewIndex(url), Sorted(DOMAIN dir), dir)

\* `ref.startswith(("#", "http://", "https://", "file://", "lithify:///"))`
is_absolute_or_fragment(ref) ==
    \/ StartsWith(ref, <<"#">>)
    \/ StartsWith(ref, S_http \o <<":", "/", "/">>)
    \/ StartsWith(ref, S_https \o <<":", "/", "/">>)
    \/ StartsWith(ref, S_file \o <<":", "/", "/">>)
    \/ StartsWith(ref, S_lithify)

\* the lithify:/// URI resolve_ref builds from a relative reference
lithify_uri(ref_path) ==
    IF Contains(ref_path, "#")
    THEN With(Split1(ref_path, "#"), LAMBDA parts :
            S_lithify \o parts[1] \o <<"#">> \o parts[2])
    ELSE S_lithify \o ref_path

\* SchemaIndex.resolve_ref(ref, context_doc_uri)
resolve_ref(ref, context_doc_uri) ==
    IF StartsWith(context_doc_uri, S_lithify) /\ ~is_absolute_or_fragment(ref)
    THEN lithify_uri(LStrip(ref, {".", "/"}))
    ELSE urljoin(context_doc_uri, ref)

\* (doc_uri, fragment) of node_for
split_uri(uri) ==
    IF StartsWith(uri, S_lithify)
    THEN IF Contains(uri, "#") THEN Split1(uri, "#") ELSE <<uri, <<>>>>
    ELSE urldefrag(uri)

\* `try: return resolve_pointer(doc, fragment)` of node_for: KeyError,
\* IndexError and TypeError give None, a ValueError is passed on
pointer_or_none(r) ==
    IF r.exc = "" THEN r.place
    ELSE IF r.exc = "ValueError" THEN [exc |-> "ValueError"]
    ELSE None

\* node_for once the URI is split
lookup(ix, doc_uri, fragment) ==
    IF doc_uri \notin DOMAIN ix.docs THEN None
    ELSE IF fragment = <<>> THEN ix.docs[doc_uri]
    ELSE IF (doc_uri \o <<"#">> \o fragment) \in DOMAIN ix.anchors
    THEN ix.anchors[doc_uri \o <<"#">> \o fragment]
    ELSE IF StartsWith(fragment, <<"/">>)
    THEN IF (doc_uri \o <<"#">> \o fragment) \in DOMAIN ix.pointers
         THEN ix.pointers[doc_uri \o <<"#">> \o fragment]
         ELSE pointer_or_none(resolve_pointer(ix.parsed, ix.docs[doc_uri], fragment))
    ELSE None

\* SchemaIndex.node_for(uri): the place of the node found, or None; an
\* exception resolve_pointer raises and node_for does not catch is passed on
node_for(ix, uri) ==
    With(split_uri(uri), LAMBDA parts : lookup(ix, parts[1], parts[2]))

\* SchemaIndex.doc_uri_for_path(path): the URI whose origin file is path; <<>>
\* stands for None (the caller tests `if not doc_uri`, and "" is as false as None)
doc_uri_for_path(ix, name) ==
    IF \E u \in DOMAIN ix.origin_files : ix.origin_files[u] = name
    THEN CHOOSE u \in DOMAIN ix.origin_files : ix.origin_files[u] = name
    ELSE <<>>
-----------------------------------------------------------------------------
(* slas_allof_processor: the pure parts *)

SetMax(S) == CHOOSE x \in S : \A y \in S : y <= x
SetMin(S) == CHOOSE x \in S : \A y \in S : x <= y

\* [f(b) for b in branches if key in b], as the set of positions that have the key
Having(branches, key) == {i \in 1..Len(branches) : Has(branches[i], key)}

\* is_allof_refinement(schema)
is_allof_refinement(schema) == Has(schema, "allOf") /\ Len(schema["allOf"]) >= 2

\* _is_inline_property_allof(node, json_ptr, parent_class); parent_class <<>> is None
is_inline_property_allof(node, json_ptr, parent_class) ==
    /\ ~Has(node, "title")
    /\ InStr(<<"/">> \o Spell["properties"] \o <<"/">>, json_ptr)
    /\ parent_class # <<>>

\* last_properties_idx of _extract_property_name, 1-based; 0 when there is none
last_properties_idx(parts) ==
    IF \E i \in 1..Len(parts) : parts[i] = Spell["properties"]
    THEN SetMax({i \in 1..Len(parts) : parts[i] = Spell["properties"]})
    ELSE 0

\* parts[last_properties_idx + 1], or ValueError
part_after(parts, last) ==
    IF last > 0 /\ last + 1 <= Len(parts)
    THEN [exc |-> "", name |-> parts[last + 1]]
    ELSE [exc |-> "ValueError"]

\* _extract_property_name(json_pointer): the name, or ValueError
extract_property_name(json_pointer) ==
    With(Split(json_pointer, "/"), LAMBDA parts :
        part_after(parts, last_properties_idx(parts)))

RECURSIVE resolve_branches_from(_, _, _, _, _, _)
RECURSIVE resolve_found(_, _, _, _, _, _, _)

\* the loop of resolve_allof_branches from branch i (0-based) on; visited is
\* visited_nodes, resolved the list built so far
resolve_branches_from(branches, ix, doc_uri, i, visited, resolved) ==
    IF i >= Len(branches) THEN [exc |-> "", branches |-> resolved]
    ELSE IF Has(branches[i + 1], "$ref")
    THEN resolve_found(branches, ix, doc_uri, i, visited, resolved,
                       node_for(ix, resolve_ref(branches[i + 1]["$ref"], doc_uri)))
    ELSE resolve_branches_from(branches, ix, doc_uri, i + 1, visited,
                               Append(resolved, branches[i + 1]))

\* the loop body for a "$ref" branch once node_for has answered `found`
resolve_found(branches, ix, doc_uri, i, visited, resolved, found) ==
    IF Has(found, "exc")
    THEN [exc |-> "ValueError", kind |-> "pointer_token", i |-> i,
          ref |-> branches[i + 1]["$ref"]]
    ELSE IF IsNone(found) \/ DOMAIN Deref(ix.parsed, found) = {}
    THEN [exc |-> "ValueError", kind |-> "cannot_resolve", i |-> i,
          ref |-> branches[i + 1]["$ref"]]
    ELSE IF found \in visited
    THEN [exc |-> "ValueError", kind |-> "circular", i |-> i,
          ref |-> branches[i + 1]["$ref"]]
    ELSE resolve_branches_from(branches, ix, doc_uri, i + 1, visited \cup {found},
                               Append(resolved, Deref(ix.parsed, found)))

\* `if not resolved: raise ValueError`
some_branches(r) ==
    IF r.exc = "" /\ Len(r.branches) = 0
    THEN [exc |-> "ValueError", kind |-> "no_branches", i |-> 0, ref |-> <<>>]
    ELSE r

\* resolve_allof_branches(branches, index, json_pointer, doc_uri)
resolve_allof_branches(branches, ix, doc_uri) ==
    some_branches(resolve_branches_from(branches, ix, doc_uri, 0, {}, <<>>))

scalar_types == {"string", "number", "integer", "boolean"}

\* types_seen of validate_scalar_types
types_seen(branches) == {branches[i]["type"] : i \in Having(branches, "type")}

\* validate_scalar_types(branches, json_pointer): the single scalar type, or ValueError
validate_scalar_types(branches) ==
    IF ~(types_seen(branches) \subseteq scalar_types)
    THEN [exc |-> "ValueError", kind |-> "non_scalar"]
    ELSE IF types_seen(branches) = {} THEN [exc |-> "ValueError", kind |-> "no_type"]
    ELSE IF Cardinality(types_seen(branches)) > 1
    THEN [exc |-> "ValueError", kind |-> "mixed_types"]
    ELSE [exc |-> "", type |-> CHOOSE t \in types_seen(branches) : TRUE]

\* bracket_depth / brace_depth of extract_uuid_version_set when its scan reaches
\* position i: the opening characters seen before i less the closing ones
DepthAt(clean, i, opening, closing) ==
    Cardinality({k \in 1..(i - 1) : clean[k] = opening})
    - Cardinality({k \in 1..(i - 1) : clean[k] = closing})

\* hyphen_positions of extract_uuid_version_set: the positions of the hyphens
\* outside [...] and {...}
HyphenPositions(clean) ==
    {i \in 1..Len(clean) :
        /\ clean[i] = "-"
        /\ DepthAt(clean, i, "[", "]") = 0
        /\ DepthAt(clean, i, "{", "}") = 0}

\* hyphen_positions[k - 1]: the k-th position in the order of the scan
Nth(positions, k) == CHOOSE x \in positions : Cardinality({y \in positions : y < x}) = k - 1
NoVersions == [some |-> FALSE, set |-> {}]
Versions(S) == [some |-> TRUE, set |-> S]

\* the version set a character class [class_content] gives
class_versions(class_content) ==
    IF /\ Len(class_content) = 3
       /\ class_content[2] = "-"
       /\ IsDigit(class_content[1])
       /\ IsDigit(class_content[3])
    THEN Versions({Digits[v + 1] :
                    v \in DigitValue(class_content[1])..DigitValue(class_content[3])})
    ELSE IF \A k \in 1..Len(class_content) : IsDigit(class_content[k])
    THEN Versions({class_content[k] : k \in 1..Len(class_content)})
    ELSE NoVersions

\* the version set the third group of a UUID pattern gives
group_versions(third_group) ==
    IF StartsWith(third_group, <<"[">>)
    THEN IF Find(third_group, "]", 1) = 0 THEN NoVersions
         ELSE class_versions(SubSeq(third_group, 2, Find(third_group, "]", 1) - 1))
    ELSE IF Len(third_group) > 0 /\ IsDigit(third_group[1])
    THEN Versions({third_group[1]})
    ELSE NoVersions

\* extract_uuid_version_set once the hyphens are found
versions_between(clean, hyphen_positions) ==
    IF Cardinality(hyphen_positions) # 4 THEN NoVersions
    ELSE group_versions(SubSeq(clean, Nth(hyphen_positions, 2) + 1,
                               Nth(hyphen_positions, 3) - 1))

\* extract_uuid_version_set(pattern): a set of version characters, or None (NoVersions)
extract_uuid_version_set(pattern) ==
    With(RStrip(LStrip(pattern, {"^"}), {"$"}), LAMBDA clean :
        versions_between(clean, HyphenPositions(clean)))

\* specialize that keeps the first pattern whenever the version sets meet
specialize_keeps_first(p1, p2, v1, v2) ==
    IF ~v1.some \/ ~v2.some THEN [exc |-> "", some |-> FALSE]
    ELSE IF v1.set \cap v2.set = {}
    THEN [exc |-> "ValueError", base |-> v1.set, refinement |-> v2.set]
    ELSE [exc |-> "", some |-> TRUE, pattern |-> p1]

\* try_uuid_pattern_specialization once both version sets are extracted
specialize(p1, p2, v1, v2) ==
    IF ~v1.some \/ ~v2.some THEN [exc |-> "", some |-> FALSE]
    ELSE IF v1.set \cap v2.set = {}
    THEN [exc |-> "ValueError", base |-> v1.set, refinement |-> v2.set]
    ELSE IF v2.set \subseteq v1.set /\ v2.set # v1.set
    THEN [exc |-> "", some |-> TRUE, pattern |-> p2]
    ELSE IF v1.set \subseteq v2.set /\ v1.set # v2.set
    THEN [exc |-> "", some |-> TRUE, pattern |-> p1]
    ELSE [exc |-> "", some |-> TRUE, pattern |-> p1]

\* try_uuid_pattern_specialization(patterns, json_pointer): a pattern, None,
\* or ValueError (the two version sets do not meet)
try_uuid_pattern_specialization(patterns) ==
    IF Len(patterns) # 2 THEN [exc |-> "", some |-> FALSE]
    ELSE specialize(patterns[1], patterns[2],
                    extract_uuid_version_set(patterns[1]),
                    extract_uuid_version_set(patterns[2]))

RECURSIVE Collect(_, _)
\* [b[key] for b in branches if key in b]
Collect(branches, key) ==
    IF Len(branches) = 0 THEN <<>>
    ELSE (IF Has(branches[1], key) THEN <<branches[1][key]>> ELSE <<>>)
         \o Collect(Tail(branches), key)

Range(seq) == {seq[i] : i \in 1..Len(seq)}

\* merged_pattern that keeps the last pattern when the version sets do not meet
merged_pattern_keeps_last(patterns, sp, is_strict) ==
    IF sp.exc # ""
    THEN IF is_strict
         THEN [exc |-> "ValueError", kind |-> "uuid_conflict",
               base |-> sp.base, refinement |-> sp.refinement]
         ELSE [exc |-> "", merged |-> ("pattern" :> patterns[Len(patterns)]),
               warnings |-> {"pattern_conflict"}]
    ELSE IF sp.some
    THEN [exc |-> "", merged |-> ("pattern" :> sp.pattern), warnings |-> {}]
    ELSE [exc |-> "",
          merged |-> ("_validator_patterns" :> patterns) @@ ("pattern" :> patterns[1]),
          warnings |-> {}]

\* the pattern part of merge_constraints once specialization has answered sp
merged_pattern(patterns, sp, is_strict) ==
    IF sp.exc # ""
    THEN IF is_strict
         THEN [exc |-> "ValueError", kind |-> "uuid_conflict",
               base |-> sp.base, refinement |-> sp.refinement]
         ELSE [exc |-> "", merged |-> ("pattern" :> patterns[1]),
               warnings |-> {"pattern_conflict"}]
    ELSE IF sp.some
    THEN [exc |-> "", merged |-> ("pattern" :> sp.pattern), warnings |-> {}]
    ELSE [exc |-> "",
          merged |-> ("_validator_patterns" :> patterns) @@ ("pattern" :> patterns[1]),
          warnings |-> {}]

\* the pattern part of merge_constraints
merge_patterns(patterns, is_strict) ==
    IF Len(patterns) = 0 THEN [exc |-> "", merged |-> EmptyDict, warnings |-> {}]
    ELSE merged_pattern(patterns, try_uuid_pattern_specialization(patterns), is_strict)

\* merge_lengths with the two bounds taken from the wrong end
merge_lengths_loosest(min_lengths, max_lengths) ==
    (IF min_lengths # {} THEN ("minLength" :> SetMin(min_lengths)) ELSE EmptyDict)
    @@ (IF max_lengths # {} THEN ("maxLength" :> SetMax(max_lengths)) ELSE EmptyDict)

\* the minLength/maxLength part of merge_constraints
merge_lengths(min_lengths, max_lengths) ==
    (IF min_lengths # {} THEN ("minLength" :> SetMax(min_lengths)) ELSE EmptyDict)
    @@ (IF max_lengths # {} THEN ("maxLength" :> SetMin(max_lengths)) ELSE EmptyDict)

\* the minimum/maximum part of merge_constraints
merge_bounds(minimums, maximums) ==
    (IF minimums # {} THEN ("minimum" :> SetMax(minimums)) ELSE EmptyDict)
    @@ (IF maximums # {} THEN ("maximum" :> SetMin(maximums)) ELSE EmptyDict)

\* set.intersection(*enums)
Intersection(enums) == {v \in enums[1] : \A i \in 1..Len(enums) : v \in enums[i]}

\* merge_enums that keeps the first enum whatever the other branches allow
merge_enums_first(enums, is_strict) ==
    IF Len(enums) = 0 THEN [exc |-> "", merged |-> EmptyDict, warnings |-> {}]
    ELSE [exc |-> "", merged |-> ("enum" :> Sorted(enums[1])), warnings |-> {}]

\* the enum part of merge_constraints; enums is the list of the branches' enum
\* values as sets
merge_enums(enums, is_strict) ==
    IF Len(enums) = 0 THEN [exc |-> "", merged |-> EmptyDict, warnings |-> {}]
    ELSE IF Intersection(enums) = {}
    THEN IF is_strict THEN [exc |-> "ValueError", kind |-> "enum_empty"]
         ELSE [exc |-> "", merged |-> ("enum" :> Sorted(enums[1])),
               warnings |-> {"enum_empty"}]
    ELSE [exc |-> "", merged |-> ("enum" :> Sorted(Intersection(enums))), warnings |-> {}]

\* the format part of merge_constraints: the first branch's format
merge_format(formats) ==
    IF Len(formats) = 0 THEN EmptyDict ELSE ("format" :> formats[1])

\* the enum values of the branches, each list as a set
enum_sets(lists) == [i \in 1..Len(lists) |-> Range(lists[i])]

\* merge_constraints once the pattern and enum parts (p, e) are computed
merge_parts(branches, scalar_type, p, e) ==
    IF p.exc # "" THEN p
    ELSE IF e.exc # "" THEN e
    ELSE [exc |-> "",
          merged |-> ("type" :> scalar_type) @@ p.merged
                     @@ merge_lengths(Range(Collect(branches, "minLength")),
                                      Range(Collect(branches, "maxLength")))
                     @@ merge_bounds(Range(Collect(branches, "minimum")),
                                     Range(Collect(branches, "maximum")))
                     @@ e.merged @@ merge_format(Collect(branches, "format")),
          warnings |-> p.warnings \cup e.warnings]

\* merge_constraints(branches, scalar_type, json_pointer, strict): the merged
\* schema and the warnings emitted, or ValueError
merge_constraints(branches, scalar_type, is_strict) ==
    merge_parts(branches, scalar_type,
                merge_patterns(Collect(branches, "pattern"), is_strict),
                merge_enums(enum_sets(Collect(branches, "enum")), is_strict))

\* validate_satisfiability(schema, json_pointer, strict): the entries of its list errors
impossible_constraints(schema) ==
    (IF Has(schema, "minLength") /\ Has(schema, "maxLength")
        /\ schema["minLength"] > schema["maxLength"] THEN {"length"} ELSE {})
    \cup (IF Has(schema, "minimum") /\ Has(schema, "maximum")
             /\ schema["minimum"] > schema["maximum"] THEN {"bounds"} ELSE {})
    \cup (IF Has(schema, "exclusiveMinimum") /\ Has(schema, "exclusiveMaximum")
             /\ schema["exclusiveMinimum"] >= schema["exclusiveMaximum"]
          THEN {"exclusive"} ELSE {})

validate_satisfiability(schema, is_strict) ==
    IF impossible_constraints(schema) = {} THEN [exc |-> "", warnings |-> {}]
    ELSE IF is_strict THEN [exc |-> "ValueError", kind |-> "impossible"]
    ELSE [exc |-> "", warnings |-> {"impossible"}]

-----------------------------------------------------------------------------
(* slas_allof_processor.process_allof_collapse: one file of one pass *)

RECURSIVE SetAt(_, _, _, _)
RECURSIVE SetChild(_, _, _, _, _)
\* the document with the object at path replaced by v (node.clear(); node.update(v))
SetAt(cur, kind, path, v) ==
    IF Len(path) = 0 THEN v
    ELSE SetChild(cur, kind, path, v, Child(cur, kind, path[1]))

\* SetAt through the child c that path[1] selects
SetChild(cur, kind, path, v, c) ==
    [cur EXCEPT ![IF kind = "list" THEN ParseInt(path[1], 0) + 1
                  ELSE IF kind = "namemap" THEN path[1]
                  ELSE KeywordOf(path[1])] = SetAt(c.value, c.kind, Tail(path), v)]

\* where one subschema sits: the keys leading to it and its JSON pointer
Sub(path, json_ptr, key, name, token) ==
    [path |-> path \o <<Spell[key]>> \o name,
     ptr |-> json_ptr \o <<"/">> \o Spell[key] \o token]

\* the part of walk_schema_nodes that yields the subschemas under one name map
NameMapChildren(names, key, escaped, path, json_ptr) ==
    [i \in 1..Len(names) |->
        Sub(path, json_ptr, key, <<names[i]>>,
            <<"/">> \o (IF escaped THEN escape(names[i]) ELSE names[i]))]

\* the part that yields the subschema under a single-schema keyword
NodeChild(node, key, path, json_ptr) ==
    IF Has(node, key) THEN <<Sub(path, json_ptr, key, <<>>, <<>>)>> ELSE <<>>

\* the part that yields the subschemas of a list keyword
ListChildren(node, key, path, json_ptr) ==
    IF Has(node, key)
    THEN [i \in 1..Len(node[key]) |->
            Sub(path, json_ptr, key, <<Str(i - 1)>>, <<"/">> \o Str(i - 1))]
    ELSE <<>>

\* the subschemas walk_schema_nodes descends into from a node, in its order
walk_children(node, path, json_ptr) ==
    NameMapChildren(NamesOf(node, "properties"), "properties", TRUE, path, json_ptr)
    \o NodeChild(node, "additionalProperties", path, json_ptr)
    \o NodeChild(node, "items", path, json_ptr)
    \o ListChildren(node, "allOf", path, json_ptr)
    \o ListChildren(node, "anyOf", path, json_ptr)
    \o ListChildren(node, "oneOf", path, json_ptr)
    \o NodeChild(node, "not", path, json_ptr)
    \o NameMapChildren(NamesOf(node, "$defs"), "$defs", FALSE, path, json_ptr)
    \o NameMapChildren(NamesOf(node, "definitions"), "definitions", FALSE, path, json_ptr)

\* what the except clause of process_allof_collapse records of a ValueError:
\* str(e) names the reference that did not resolve, or the two version sets
\* that do not meet
Failed(r, ref) ==
    [exc |-> r.exc, kind |-> r.kind, ref |-> ref,
     versions |-> IF r.kind = "uuid_conflict" THEN <<r.base, r.refinement>> ELSE <<>>]

\* the body of the try statement of process_allof_collapse up to the merged schema
try_collapse(node, ctx) ==
    With(resolve_allof_branches(node["allOf"], ctx.ix, ctx.doc_uri), LAMBDA r1 :
        IF r1.exc # "" THEN Failed(r1, r1.ref) ELSE
    With(validate_scalar_types(r1.branches), LAMBDA r2 :
        IF r2.exc # "" THEN Failed(r2, <<>>) ELSE
    With(merge_constraints(r1.branches, r2.type, ctx.strict), LAMBDA r3 :
        IF r3.exc # "" THEN Failed(r3, <<>>) ELSE
    With(validate_satisfiability(r3.merged, ctx.strict), LAMBDA r4 :
        IF r4.exc # "" THEN Failed(r4, <<>>)
        ELSE [exc |-> "", branches |-> r1.branches, merged |-> r3.merged,
              warnings |-> r3.warnings \cup r4.warnings]))))

\* node.clear(); node.update(merged): what the collapsed node holds
collapsed_node(node, merged) == merged

\* the InlineAllOfInfo appended once the property name is extracted (none when
\* _extract_property_name raised)
tracked_inline(n, json_ptr, merged, ctx) ==
    IF n.exc = ""
    THEN <<[property_name |-> n.name, parent_class |-> ctx.parent_class,
            merged_schema |-> merged, json_pointer |-> json_ptr,
            origin_file |-> ctx.file]>>
    ELSE <<>>

\* the InlineAllOfInfo records appended for a collapsed chain (none or one)
inline_info(node, json_ptr, merged, ctx) ==
    IF is_inline_property_allof(node, json_ptr, ctx.parent_class)
    THEN tracked_inline(extract_property_name(json_ptr), json_ptr, merged, ctx)
    ELSE <<>>

\* the loop body for a chain that collapsed to r.merged; after is what the node
\* holds from then on
collapse_node(acc, node, path, json_ptr, ctx, r, after) ==
    [acc |-> [acc EXCEPT
                !.doc = SetAt(@, "node", path, after),
                !.events = Append(@, [file |-> ctx.file, json_pointer |-> json_ptr,
                                      node |-> node, branches |-> r.branches,
                                      merged |-> r.merged, after |-> after]),
                !.inline = @ \o inline_info(node, json_ptr, r.merged, ctx),
                !.warnings = @ \cup {[kind |-> w, file |-> ctx.file,
                                      json_pointer |-> json_ptr] : w \in r.warnings},
                !.collapsed = @ + 1],
     node |-> after]

\* the loop body for a chain, r being what the try statement came to
chain_outcome(acc, node, path, json_ptr, ctx, r) ==
    IF r.exc = ""
    THEN collapse_node(acc, node, path, json_ptr, ctx, r, collapsed_node(node, r.merged))
    ELSE [acc |-> [acc EXCEPT
                    !.failures = Append(@, [file |-> ctx.file, json_pointer |-> json_ptr,
                                            kind |-> r.kind, ref |-> r.ref,
                                            versions |-> r.versions])],
          node |-> node]

\* the loop body of process_allof_collapse for one yielded node: what it has
\* appended and what the node holds afterwards
loop_body(acc, node, path, json_ptr, ctx) ==
    IF ~is_allof_refinement(node) THEN [acc |-> acc, node |-> node]
    ELSE chain_outcome(acc, node, path, json_ptr, ctx, try_collapse(node, ctx))

RECURSIVE walk_and_collapse(_, _, _, _)
RECURSIVE walk_each(_, _, _)

\* `for node, json_ptr in walk_schema_nodes(schema)` with the loop body of
\* process_allof_collapse, from the node at path on.  acc carries the document
\* as mutated so far and what the loop has appended.  The generator descends
\* into a node after the loop body has run on it.
walk_and_collapse(acc, path, json_ptr, ctx) ==
    With(loop_body(acc, Traverse(acc.doc, "node", path, <<>>).value, path, json_ptr, ctx),
         LAMBDA b : walk_each(b.acc, walk_children(b.node, path, json_ptr), ctx))

walk_each(acc, children, ctx) ==
    IF Len(children) = 0 THEN acc
    ELSE With(walk_and_collapse(acc, children[1].path, children[1].ptr, ctx), LAMBDA acc1 :
            walk_each(acc1, Tail(children), ctx))

\* parent_class of process_allof_collapse; <<>> is None
parent_class_of(schema, ix) ==
    IF Has(schema, "title") /\ schema["title"] # <<>>
    THEN IF schema["title"] \in DOMAIN ix.class_name_overrides
         THEN ix.class_name_overrides[schema["title"]]
         ELSE schema["title"]
    ELSE <<>>

\* what the loop over the nodes of one file starts from
NothingDone(schema) ==
    [doc |-> schema, events |-> <<>>, failures |-> <<>>, inline |-> <<>>,
     warnings |-> {}, collapsed |-> 0]

\* the walk of one file once its doc_uri is looked up
walk_file(name, schema, ix, is_strict, doc_uri) ==
    IF doc_uri = <<>> THEN NothingDone(schema)
    ELSE walk_and_collapse(NothingDone(schema), <<>>, <<"#">>,
                           [file |-> name, doc_uri |-> doc_uri, ix |-> ix,
                            strict |-> is_strict,
                            parent_class |-> parent_class_of(schema, ix)])

\* one turn of `for schema_file in sorted(json_dir.glob("*.json"))`
process_file(name, schema, ix, is_strict) ==
    walk_file(name, schema, ix, is_strict, doc_uri_for_path(ix, name))
-----------------------------------------------------------------------------
(* slas_classifier *)

\* A JSON value that is not an object, where a subschema is expected (the
\* boolean schemas true and false): `not isinstance(schema, dict)`
NonDict == [nondict |-> TRUE]
is_dict(schema) == ~Has(schema, "nondict")

\* A "type" keyword whose value is a list of type names, ["string", "null"]
\* and the like.  The list is kept as one opaque value: it equals no type
\* name, and a membership test of it against a set raises TypeError (a list is
\* unhashable).
TypeLists == {"[string,null]", "[integer,null]", "[string,integer]"}

\* schema.get("type")
type_of(schema) == IF Has(schema, "type") THEN schema["type"] ELSE "None"

denied_keys == {"properties", "items", "oneOf", "anyOf", "allOf"}

\* is_scalar_str(schema)
is_scalar_str(schema) ==
    /\ is_dict(schema)
    /\ type_of(schema) = "string"
    /\ denied_keys \cap DOMAIN schema = {}
    /\ {"pattern", "format", "minLength", "maxLength"} \cap DOMAIN schema # {}

\* is_scalar_number(schema): TRUE, FALSE, or the TypeError of `type_val not in {...}`
is_scalar_number(schema) ==
    IF ~is_dict(schema) THEN [exc |-> "", value |-> FALSE]
    ELSE IF type_of(schema) \in TypeLists THEN [exc |-> "TypeError", value |-> FALSE]
    ELSE [exc |-> "",
          value |-> /\ type_of(schema) \in {"number", "integer"}
                    /\ denied_keys \cap DOMAIN schema = {}
                    /\ {"minimum", "maximum", "exclusiveMinimum", "exclusiveMaximum",
                        "multipleOf"} \cap DOMAIN schema # {}]

\* is_enum_str(schema); the enumerations and constants of the model hold str
\* values only
is_enum_str(schema) ==
    /\ is_dict(schema)
    /\ (Has(schema, "enum") \/ Has(schema, "const"))

\* is_union_of_scalar_str(schema)
is_union_of_scalar_str(schema) ==
    /\ is_dict(schema)
    /\ Has(schema, "oneOf")
    /\ Len(schema["oneOf"]) >= 2
    /\ \A i \in 1..Len(schema["oneOf"]) : is_scalar_str(schema["oneOf"][i])
    /\ \E i \in 1..Len(schema["oneOf"]) : Has(schema["oneOf"][i], "pattern")

\* classify_shape from `if schema.get("type") == "object"` on
structural_shape(schema) ==
    IF type_of(schema) = "object"
    THEN IF Has(schema, "additionalProperties") /\ ~Has(schema, "properties")
         THEN "map" ELSE "object"
    ELSE IF type_of(schema) = "array" THEN "array"
    ELSE IF {"allOf", "anyOf", "oneOf"} \cap DOMAIN schema # {} THEN "mixed"
    ELSE IF Has(schema, "$ref") THEN "ref"
    ELSE "unknown"

\* classify_shape once is_scalar_number has answered n
shape_after_number(schema, n) ==
    IF n.exc # "" THEN [exc |-> n.exc, shape |-> ""]
    ELSE IF n.value THEN [exc |-> "", shape |-> "scalar_number"]
    ELSE IF is_enum_str(schema) THEN [exc |-> "", shape |-> "enum_str"]
    ELSE IF is_union_of_scalar_str(schema) THEN [exc |-> "", shape |-> "union_scalar_str"]
    ELSE [exc |-> "", shape |-> structural_shape(schema)]

\* classify_shape(schema): the shape tag returned, or the exception raised
classify_shape(schema) ==
    IF ~is_dict(schema) THEN [exc |-> "", shape |-> "unknown"]
    ELSE IF is_scalar_str(schema) THEN [exc |-> "", shape |-> "scalar_str"]
    ELSE shape_after_number(schema, is_scalar_number(schema))

-----------------------------------------------------------------------------
(* slas_alias_generator *)

\* cfg.package_name
PackageName == <<"p", "k", "g">>

S_common_types == <<"c", "o", "m", "m", "o", "n", "_", "t", "y", "p", "e", "s">>
S_NsInt == <<"N", "s", "I", "n", "t">>

\* str.isdigit()
isdigit(s) == Len(s) > 0 /\ \A i \in 1..Len(s) : IsDigit(s[i])

\* _normalize_module_stem(stem); exportables computes its module name the same way
normalize_module_stem(stem) ==
    IF Contains(stem, "_") /\ isdigit(Split1(stem, "_")[1])
    THEN Split1(stem, "_")[2] ELSE stem

\* f"{package_name}.{module}.{name}"
fqn_of(module, name) == PackageName \o <<".">> \o module \o <<".">> \o name

RECURSIVE Dedupe(_, _)
\* the keys of a dict filled in the order of seq: every value once, where it
\* first occurs
Dedupe(seq, seen) ==
    IF Len(seq) = 0 THEN <<>>
    ELSE IF seq[1] \in seen THEN Dedupe(Tail(seq), seen)
    ELSE <<seq[1]>> \o Dedupe(Tail(seq), seen \cup {seq[1]})

RECURSIVE InsertSorted(_, _)
InsertSorted(sorted, name) ==
    IF Len(sorted) = 0 THEN <<name>>
    ELSE IF StrLess(name, sorted[1]) THEN <<name>> \o sorted
    ELSE <<sorted[1]>> \o InsertSorted(Tail(sorted), name)

RECURSIVE SortedSeq(_)
\* sorted(names) for a list of str values (equal names are kept)
SortedSeq(names) ==
    IF Len(names) = 0 THEN <<>>
    ELSE InsertSorted(SortedSeq(SubSeq(names, 1, Len(names) - 1)), names[Len(names)])

\* d[k].extend(vs) for a defaultdict(list)
Extend(d, k, vs) == Put(d, k, (IF k \in DOMAIN d THEN d[k] ELSE <<>>) \o vs)

RECURSIVE PutAll(_, _)
\* d[e.key] = e.value for every e of entries, in order
PutAll(d, entries) ==
    IF Len(entries) = 0 THEN d
    ELSE PutAll(Put(d, entries[1].key, entries[1].value), Tail(entries))

\* one element of the list exportables returns: NodeId(doc_uri, fragment).uri,
\* the fragment, the symbol name and the module name
export_of(doc_uri, fragment, name, module) ==
    [uri |-> doc_uri \o fragment, fragment |-> fragment, name |-> name, module |-> module]

\* the exports of the names under "$defs" or "definitions"
defs_exports(names, key, doc_uri, module) ==
    [i \in 1..Len(names) |->
        export_of(doc_uri, <<"#", "/">> \o Spell[key] \o <<"/">> \o names[i],
                  names[i], module)]

\* the list exports of exportables
exports_of(doc, doc_uri, module) ==
    (IF Has(doc, "title") THEN <<export_of(doc_uri, <<>>, doc["title"], module)>> ELSE <<>>)
    \o defs_exports(NamesOf(doc, "$defs"), "$defs", doc_uri, module)
    \o defs_exports(NamesOf(doc, "definitions"), "definitions", doc_uri, module)

\* SchemaIndex.exportables(doc_uri): the exports, or the KeyError of
\* `self.origin_files[doc_uri]`
exportables(ix, doc_uri) ==
    IF doc_uri \notin DOMAIN ix.docs THEN [exc |-> "", exports |-> <<>>]
    ELSE IF doc_uri \notin DOMAIN ix.origin_files THEN [exc |-> "KeyError", exports |-> <<>>]
    ELSE [exc |-> "",
          exports |-> exports_of(Deref(ix.parsed, ix.docs[doc_uri]), doc_uri,
                                 normalize_module_stem(Stem(ix.origin_files[doc_uri])))]

RECURSIVE walk_schema_nodes(_, _)
RECURSIVE walk_subschemas(_, _)
\* utils.walk_schema_nodes(schema), schema being the object at path of the parsed
\* file doc: the paths of the nodes yielded, in order
walk_schema_nodes(doc, path) ==
    <<path>> \o walk_subschemas(doc, walk_children(Traverse(doc, "node", path, <<>>).value,
                                                   path, <<>>))

walk_subschemas(doc, children) ==
    IF Len(children) = 0 THEN <<>>
    ELSE walk_schema_nodes(doc, children[1].path) \o walk_subschemas(doc, Tail(children))

\* the nodes of index.docs[doc_uri], as places
nodes_of_doc(ix, doc_uri) ==
    With(walk_schema_nodes(ix.parsed[ix.docs[doc_uri].file], ix.docs[doc_uri].path),
         LAMBDA paths : [i \in 1..Len(paths) |-> Place(ix.docs[doc_uri].file, paths[i])])

\* all_refs of emit_alias_modules
all_refs(ix) ==
    UNION {{resolve_ref(Deref(ix.parsed, pl)["$ref"], u) :
                pl \in {x \in Range(nodes_of_doc(ix, u)) : Has(Deref(ix.parsed, x), "$ref")}} :
            u \in DOMAIN ix.docs}

alias_shapes == {"scalar_str", "scalar_number", "enum_str", "union_scalar_str"}

\* the loop body of `for node_id, name, module in exports` from classify_shape on
classified_export(acc, e, c) ==
    IF c.exc # "" THEN [acc EXCEPT !.exc = c.exc]
    ELSE IF c.shape \in alias_shapes THEN [acc EXCEPT !.kept = Append(@, e)]
    ELSE acc

\* export_outcome with the skip applied to the definitions without a title
export_outcome_untitled(ix, e, refs, acc, found) ==
    IF Has(found, "exc") THEN [acc EXCEPT !.exc = found.exc]
    ELSE IF IsNone(found) \/ DOMAIN Deref(ix.parsed, found) = {} THEN acc
    ELSE IF /\ StartsWith(e.fragment, <<"#", "/">> \o Spell["$defs"] \o <<"/">>)
            /\ ~Has(Deref(ix.parsed, found), "title")
            /\ e.uri \notin refs
    THEN acc
    ELSE classified_export(acc, e, classify_shape(Deref(ix.parsed, found)))

\* the loop body of `for node_id, name, module in exports`, found being what
\* index.node_for(node_id.uri) answered
export_outcome(ix, e, refs, acc, found) ==
    IF Has(found, "exc") THEN [acc EXCEPT !.exc = found.exc]
    ELSE IF IsNone(found) \/ DOMAIN Deref(ix.parsed, found) = {} THEN acc
    ELSE IF /\ StartsWith(e.fragment, <<"#", "/">> \o Spell["$defs"] \o <<"/">>)
            /\ Has(Deref(ix.parsed, found), "title")
            /\ e.uri \notin refs
    THEN acc
    ELSE classified_export(acc, e, classify_shape(Deref(ix.parsed, found)))

RECURSIVE kept_exports(_, _, _, _)
\* the loop `for node_id, name, module in exports`
kept_exports(ix, exports, refs, acc) ==
    IF acc.exc # "" \/ Len(exports) = 0 THEN acc
    ELSE kept_exports(ix, Tail(exports), refs,
                      export_outcome(ix, exports[1], refs, acc, node_for(ix, exports[1].uri)))

RECURSIVE exports_of_docs(_, _, _, _)
\* the loop `for doc_uri in index.docs` that fills by_module
exports_of_docs(ix, uris, refs, acc) ==
    IF acc.exc # "" \/ Len(uris) = 0 THEN acc
    ELSE With(exportables(ix, uris[1]), LAMBDA x :
            IF x.exc # "" THEN [acc EXCEPT !.exc = x.exc]
            ELSE exports_of_docs(ix, Tail(uris), refs, kept_exports(ix, x.exports, refs, acc)))

\* the elements of a list grouped by their module, the modules in the order they
\* first occur: the iteration order of by_module.items()
Grouped(seq) ==
    With(Dedupe([i \in 1..Len(seq) |-> seq[i].module], {}), LAMBDA modules :
        [i \in 1..Len(modules) |-> SelectSeq(seq, LAMBDA e : e.module = modules[i])])

RECURSIVE Flatten(_)
Flatten(seqs) == IF Len(seqs) = 0 THEN <<>> ELSE seqs[1] \o Flatten(Tail(seqs))

NamesIn(seq) == [i \in 1..Len(seq) |-> seq[i].name]

RECURSIVE write_modules(_, _)
\* the alias statements of the files generate_alias_module writes, one file for
\* every group of by_module, the aliases sorted by name
write_modules(alias_files, groups) ==
    IF Len(groups) = 0 THEN alias_files
    ELSE write_modules(Put(alias_files, groups[1][1].module, SortedSeq(NamesIn(groups[1]))),
                       Tail(groups))

RECURSIVE created_modules(_, _)
\* modules_created[module].append(name) for every export kept
created_modules(created, kept) ==
    IF Len(kept) = 0 THEN created
    ELSE created_modules(Extend(created, kept[1].module, <<kept[1].name>>), Tail(kept))

\* `for name, _, _, node_id in aliases: ref_map[node_id.uri] = fqn`, over every group
export_ref_map(groups) ==
    With(Flatten(groups), LAMBDA es :
        PutAll(EmptyDict, [i \in 1..Len(es) |->
                              [key |-> es[i].uri, value |-> fqn_of(es[i].module, es[i].name)]]))

\* the name a title or definition name gets: index.class_name_overrides.get(name, name)
actual_name(ix, name) ==
    IF name \in DOMAIN ix.class_name_overrides THEN ix.class_name_overrides[name] ELSE name

\* validators_needed of emit_alias_modules: the type names, in the order their
\* nodes are met
validators_needed(ix) ==
    With(Flatten([i \in 1..Len(ix.doc_order) |-> nodes_of_doc(ix, ix.doc_order[i])]),
         LAMBDA nodes :
        With(SelectSeq(nodes, LAMBDA pl : /\ Has(Deref(ix.parsed, pl), "_validator_patterns")
                                          /\ Has(Deref(ix.parsed, pl), "title")),
             LAMBDA titled :
            Dedupe([i \in 1..Len(titled) |->
                        actual_name(ix, Deref(ix.parsed, titled[i])["title"])], {})))

\* whether the document at doc_uri exports type_name in _determine_module
names_type(ix, doc_uri, type_name) ==
    With(Deref(ix.parsed, ix.docs[doc_uri]), LAMBDA doc :
        \/ Has(doc, "title") /\ actual_name(ix, doc["title"]) = type_name
        \/ \E n \in Range(NamesOf(doc, "$defs")) : actual_name(ix, n) = type_name)

RECURSIVE determine_module(_, _, _)
\* _determine_module(index, type_name), from the document uris[1] on: the
\* module, or the KeyError of `index.origin_files[doc_uri]`
determine_module(ix, uris, type_name) ==
    IF Len(uris) = 0 THEN [exc |-> "", module |-> S_common_types]
    ELSE IF names_type(ix, uris[1], type_name)
    THEN IF uris[1] \in DOMAIN ix.origin_files
         THEN [exc |-> "", module |-> Stem(ix.origin_files[uris[1]])]
         ELSE [exc |-> "KeyError", module |-> <<>>]
    ELSE determine_module(ix, Tail(uris), type_name)

RECURSIVE write_validators(_, _, _)
\* the loop `for type_name, patterns in validators_needed.items()`: each
\* validated alias is appended to the file of its module
write_validators(out, ix, names) ==
    IF out.exc # "" \/ Len(names) = 0 THEN out
    ELSE With(determine_module(ix, ix.doc_order, names[1]), LAMBDA m :
            IF m.exc # "" THEN [out EXCEPT !.exc = m.exc]
            ELSE write_validators([out EXCEPT !.alias_files = Extend(@, m.module, <<names[1]>>)],
                                  ix, Tail(names)))

\* "^[0-9]+$"
DigitPattern == <<"^", "[", "0", "-", "9", "]", "+", "$">>

\* nsint_mapper.detect_ns_fields(schema): the names of the *_ns properties
detect_ns_fields(schema) ==
    SelectSeq(NamesOf(schema, "properties"), LAMBDA name :
        /\ Len(name) >= 3 /\ From(name, Len(name) - 2) = <<"_", "n", "s">>
        /\ type_of(schema["properties"][name]) = "string"
        /\ Has(schema["properties"][name], "pattern")
        /\ schema["properties"][name]["pattern"] = DigitPattern)

\* nsint_mapper.scan_all_schemas_for_ns_fields(json_dir)
scan_all_schemas_for_ns_fields(dir) ==
    \E f \in DOMAIN dir : Len(detect_ns_fields(dir[f])) > 0

\* the NsInt part of emit_alias_modules
write_nsint(out, dir) ==
    IF out.exc = "" /\ scan_all_schemas_for_ns_fields(dir)
    THEN [out EXCEPT
            !.alias_files = Extend(@, S_common_types, <<S_NsInt>>),
            !.modules_created = IF S_common_types \in DOMAIN @ THEN @
                                ELSE Put(@, S_common_types, <<S_NsInt>>)]
    ELSE out

\* emit_alias_modules once by_module is filled with the exports kept
emit_kept(ix, dir, acc) ==
    IF acc.exc # ""
    THEN [exc |-> acc.exc, ref_map |-> EmptyDict, modules_created |-> EmptyDict,
          alias_files |-> EmptyDict]
    ELSE write_nsint(
            write_validators([exc |-> "",
                              ref_map |-> export_ref_map(Grouped(acc.kept)),
                              modules_created |-> created_modules(EmptyDict, acc.kept),
                              alias_files |-> write_modules(EmptyDict, Grouped(acc.kept))],
                             ix, validators_needed(ix)),
            dir)

\* emit_alias_modules(index, output_dir, package_name, ..., json_dir): ref_map,
\* modules_created and, of the files written, the names each one assigns
emit_alias_modules(ix, dir) ==
    emit_kept(ix, dir, exports_of_docs(ix, ix.doc_order, all_refs(ix),
                                       [exc |-> "", kept |-> <<>>]))

\* _class_to_module_name(class_name, origin_file)
class_to_module_name(origin_file) ==
    normalize_module_stem(Stem(origin_file)) \o <<"_", "t", "y", "p", "e", "s">>

\* (alias_name, module_name) of one InlineAllOfInfo
inline_alias(info) ==
    [name |-> info.parent_class \o <<"_">> \o info.property_name,
     module |-> class_to_module_name(info.origin_file),
     json_pointer |-> info.json_pointer,
     shape |-> classify_shape(info.merged_schema)]

\* generate_alias_code writes an assignment for the four alias shapes and a
\* comment for every other shape
assigned(aliases) == NamesIn(SelectSeq(aliases, LAMBDA a : a.shape.shape \in alias_shapes))

RECURSIVE write_inline(_, _)
\* the loop `for module_name, aliases in by_module.items()` of emit_inline_allof_aliases
write_inline(out, groups) ==
    IF Len(groups) = 0 THEN out
    ELSE IF \E i \in 1..Len(groups[1]) : groups[1][i].shape.exc # ""
    THEN [out EXCEPT !.exc = "TypeError"]
    ELSE write_inline(
            [out EXCEPT
                !.alias_files = Extend(@, groups[1][1].module, assigned(groups[1])),
                !.modules_created = Extend(@, groups[1][1].module, NamesIn(groups[1])),
                !.ref_map = PutAll(@, [i \in 1..Len(groups[1]) |->
                                        [key |-> groups[1][i].json_pointer,
                                         value |-> fqn_of(groups[1][i].module,
                                                          groups[1][i].name)]])],
            Tail(groups))

\* emit_inline_allof_aliases(inline_allofs, output_dir, package_name) followed
\* by ref_map.update(inline_ref_map) and the merge of inline_modules into
\* modules_created (orchestrator); out is what emit_alias_modules returned and wrote
emit_inline_allof_aliases(out, inline) ==
    IF out.exc # "" \/ Len(inline) = 0 THEN out
    ELSE write_inline(out, Grouped([i \in 1..Len(inline) |-> inline_alias(inline[i])]))

-----------------------------------------------------------------------------
(* slas_field_mapper *)

IsUpper(c) == \E j \in 1..26 : UpperCase[j] = c
IsLower(c) == \E j \in 1..26 : LowerCase[j] = c

\* s.upper()
Upper(s) ==
    [i \in 1..Len(s) |->
        IF IsLower(s[i]) THEN UpperCase[CHOOSE j \in 1..26 : LowerCase[j] = s[i]] ELSE s[i]]

\* word.capitalize()
capitalize(word) ==
    IF Len(word) = 0 THEN word ELSE Upper(<<word[1]>>) \o Lower(Tail(word))

RECURSIVE ReplaceAll(_, _, _)
\* s.replace(old, new)
ReplaceAll(s, old, new) ==
    IF Len(s) < Len(old) THEN s
    ELSE IF SubSeq(s, 1, Len(old)) = old
    THEN new \o ReplaceAll(From(s, Len(old) + 1), old, new)
    ELSE <<s[1]>> \o ReplaceAll(Tail(s), old, new)

\* re.sub(r"([A-Z]+)([A-Z][a-z])", r"\1_\2", name): an underscore goes before
\* the last letter of a run of upper-case letters that a lower-case letter follows
split_acronyms(name) ==
    Flatten([i \in 1..Len(name) |->
        IF /\ i > 1 /\ i < Len(name)
           /\ IsUpper(name[i - 1]) /\ IsUpper(name[i]) /\ IsLower(name[i + 1])
        THEN <<"_", name[i]>> ELSE <<name[i]>>])

\* re.sub(r"([a-z\d])([A-Z])", r"\1_\2", name)
split_words(name) ==
    Flatten([i \in 1..Len(name) |->
        IF i > 1 /\ (IsLower(name[i - 1]) \/ IsDigit(name[i - 1])) /\ IsUpper(name[i])
        THEN <<"_", name[i]>> ELSE <<name[i]>>])

\* re.sub(r"[^a-z0-9_]", "_", name)
only_word_characters(name) ==
    [i \in 1..Len(name) |->
        IF IsLower(name[i]) \/ IsDigit(name[i]) \/ name[i] = "_" THEN name[i] ELSE "_"]

ReservedFieldNames ==
    {<<"c", "l", "a", "s", "s">>, <<"d", "e", "f">>, <<"r", "e", "t", "u", "r", "n">>,
     <<"f", "r", "o", "m">>, <<"i", "m", "p", "o", "r", "t">>, <<"t", "y", "p", "e">>}

\* sanitize_field_name from the digit test on
finish_field_name(name) ==
    With(IF Len(name) > 0 /\ IsDigit(name[1])
         THEN <<"f", "i", "e", "l", "d", "_">> \o name ELSE name, LAMBDA n1 :
    With(IF n1 \in ReservedFieldNames THEN n1 \o <<"_">> ELSE n1, LAMBDA n2 :
        IF n2 = <<>> THEN <<"f", "i", "e", "l", "d">> ELSE n2))

\* sanitize_field_name(name)
sanitize_field_name(name) ==
    finish_field_name(only_word_characters(Lower(split_words(split_acronyms(name)))))

\* FieldTarget(model_name, field_name, alias_fqn, slot)
FieldTarget(model_name, field_name, alias_fqn, slot) ==
    [model_name |-> model_name, field_name |-> field_name,
     alias_fqn |-> alias_fqn, slot |-> slot]

\* FieldTarget.field_key
field_key(target) == target.model_name \o <<".">> \o target.field_name

\* field_map[target.field_key] = target
set_target(field_map, target) == Put(field_map, field_key(target), target)

\* the model name build_field_map makes from a document URI
name_from_uri(doc_uri) ==
    With(Split(ReplaceAll(Split(doc_uri, "/")[Len(Split(doc_uri, "/"))], S_json, <<>>), "_"),
         LAMBDA words : Flatten([i \in 1..Len(words) |-> capitalize(words[i])]))

\* model_name of build_field_map
model_name_of(ix, doc, doc_uri) ==
    actual_name(ix, IF Has(doc, "title") /\ doc["title"] # <<>>
                    THEN doc["title"] ELSE name_from_uri(doc_uri))

\* the `if "$ref" in sub_schema` part of find_refs_recursive
ref_target(field_map, ctx, place, ref, slot) ==
    With(resolve_uri(IF place \in DOMAIN ctx.ix.subschema_bases
                     THEN ctx.ix.subschema_bases[place] ELSE ctx.doc_uri, ref),
         LAMBDA pair :
        IF (pair[1] \o pair[2]) \in DOMAIN ctx.ref_map
        THEN set_target(field_map,
                        FieldTarget(ctx.model_name, sanitize_field_name(ctx.prop_name),
                                    ctx.ref_map[pair[1] \o pair[2]], slot))
        ELSE field_map)

RECURSIVE find_refs_recursive(_, _, _, _)
RECURSIVE find_refs_in_list(_, _, _, _, _)
RECURSIVE find_refs_in_lists(_, _, _, _)

\* find_refs_recursive(sub_schema, prop_name, slot), sub_schema being the
\* object at place; ctx holds the closure (index, ref_map, doc_uri, model_name)
\* and prop_name
find_refs_recursive(field_map, ctx, place, slot) ==
    With(Deref(ctx.ix.parsed, place), LAMBDA sub_schema :
        IF ~is_dict(sub_schema) THEN field_map ELSE
    With(IF Has(sub_schema, "$ref")
         THEN ref_target(field_map, ctx, place, sub_schema["$ref"], slot)
         ELSE field_map, LAMBDA fm1 :
    With(IF Has(sub_schema, "items")
         THEN find_refs_recursive(fm1, ctx, Place(place.file, Append(place.path, Spell["items"])),
                                  "list_item")
         ELSE fm1, LAMBDA fm2 :
    With(IF Has(sub_schema, "additionalProperties")
         THEN find_refs_recursive(fm2, ctx,
                                  Place(place.file,
                                        Append(place.path, Spell["additionalProperties"])),
                                  "dict_value")
         ELSE fm2, LAMBDA fm3 :
        find_refs_in_lists(fm3, ctx, place, <<"oneOf", "anyOf", "allOf">>)))))

\* `for item in sub_schema[key]`, from item i (0-based) on
find_refs_in_list(field_map, ctx, place, key, i) ==
    IF i >= Len(Deref(ctx.ix.parsed, place)[key]) THEN field_map
    ELSE find_refs_in_list(
            find_refs_recursive(field_map, ctx,
                                Place(place.file, place.path \o <<Spell[key], Str(i)>>),
                                "union_member"),
            ctx, place, key, i + 1)

\* `for key in ["oneOf", "anyOf", "allOf"]`
find_refs_in_lists(field_map, ctx, place, keys) ==
    IF Len(keys) = 0 THEN field_map
    ELSE find_refs_in_lists(
            IF Has(Deref(ctx.ix.parsed, place), keys[1])
            THEN find_refs_in_list(field_map, ctx, place, keys[1], 0)
            ELSE field_map,
            ctx, place, Tail(keys))

\* the loop body of `for prop_name, prop_schema in doc.get("properties", {}).items()`
map_property(field_map, ctx, place) ==
    With(<<"#", "/">> \o Spell["properties"] \o <<"/">> \o ctx.prop_name, LAMBDA prop_json_ptr :
        IF prop_json_ptr \in DOMAIN ctx.ref_map
        THEN set_target(field_map,
                        FieldTarget(ctx.model_name, sanitize_field_name(ctx.prop_name),
                                    ctx.ref_map[prop_json_ptr], "self"))
        ELSE find_refs_recursive(field_map, ctx,
                                 Place(place.file,
                                       place.path \o <<Spell["properties"], ctx.prop_name>>),
                                 "self"))

RECURSIVE map_properties(_, _, _, _)
map_properties(field_map, ctx, place, names) ==
    IF Len(names) = 0 THEN field_map
    ELSE map_properties(map_property(field_map, [ctx EXCEPT !.prop_name = names[1]], place),
                        ctx, place, Tail(names))

\* the loop body of `for doc_uri, doc in index.docs.items()`
map_document(field_map, ix, ref_map, doc_uri) ==
    With(Deref(ix.parsed, ix.docs[doc_uri]), LAMBDA doc :
        IF ~is_dict(doc) \/ ~Has(doc, "properties") THEN field_map
        ELSE map_properties(field_map,
                            [ix |-> ix, ref_map |-> ref_map, doc_uri |-> doc_uri,
                             model_name |-> model_name_of(ix, doc, doc_uri),
                             prop_name |-> <<>>],
                            ix.docs[doc_uri], Keys(doc["properties"])))

RECURSIVE map_documents(_, _, _, _)
map_documents(field_map, ix, ref_map, uris) ==
    IF Len(uris) = 0 THEN field_map
    ELSE map_documents(map_document(field_map, ix, ref_map, uris[1]), ix, ref_map, Tail(uris))

\* the NsInt targets of one schema file
ns_targets(ix, schema) ==
    IF ~Has(schema, "title") THEN <<>>
    ELSE With(detect_ns_fields(schema), LAMBDA ns_fields :
            [i \in 1..Len(ns_fields) |->
                FieldTarget(actual_name(ix, schema["title"]), ns_fields[i],
                            fqn_of(S_common_types, S_NsInt), "self")])

RECURSIVE set_targets(_, _)
set_targets(field_map, targets) ==
    IF Len(targets) = 0 THEN field_map
    ELSE set_targets(set_target(field_map, targets[1]), Tail(targets))

\* the loop `for schema_file in sorted(json_dir.glob("*.json"))` of build_field_map
map_ns_fields(field_map, ix, dir) ==
    With(Sorted(DOMAIN dir), LAMBDA names :
        set_targets(field_map, Flatten([i \in 1..Len(names) |-> ns_targets(ix, dir[names[i]])])))

\* build_field_map(index, ref_map, json_dir, package_name=...)
build_field_map(ix, ref_map, dir) ==
    map_ns_fields(map_documents(EmptyDict, ix, ref_map, ix.doc_order), ix, dir)

-----------------------------------------------------------------------------
(* slas_rewriter.FieldRewriter.  An annotation is a Python ast expression: a  *)
(* record whose field node names its class.                                  *)

Name(id) == [node |-> "Name", id |-> id]
Subscript(value, slice) == [node |-> "Subscript", value |-> value, slice |-> slice]
TupleOf(elts) == [node |-> "Tuple", elts |-> elts]
BitOr(left, right) == [node |-> "BinOp", left |-> left, right |-> right]
\* the constant None
NoneConstant == [node |-> "Constant", value |-> "None"]
\* a call such as Field(min_length=1), which the rewriter never looks into
CallOf(func) == [node |-> "Call", func |-> func]

S_str == <<"s", "t", "r">>
S_int == <<"i", "n", "t">>
S_float == <<"f", "l", "o", "a", "t">>
S_bool == <<"b", "o", "o", "l">>
S_Annotated == <<"A", "n", "n", "o", "t", "a", "t", "e", "d">>
S_Optional == <<"O", "p", "t", "i", "o", "n", "a", "l">>
S_Union == <<"U", "n", "i", "o", "n">>
S_List == <<"L", "i", "s", "t">>
S_list == <<"l", "i", "s", "t">>
S_Set == <<"S", "e", "t">>
S_set == <<"s", "e", "t">>
S_Dict == <<"D", "i", "c", "t">>
S_dict == <<"d", "i", "c", "t">>

\* s.rsplit(c, 1)
RSplit1(s, c) ==
    IF Contains(s, c)
    THEN With(SetMax({i \in 1..Len(s) : s[i] = c}), LAMBDA i :
            <<SubSeq(s, 1, i - 1), From(s, i + 1)>>)
    ELSE <<s>>

\* alias_name of _rewrite_annotation: target.alias_fqn.rsplit(".", 1)[-1]
alias_name_of(alias_fqn) == RSplit1(alias_fqn, ".")[Len(RSplit1(alias_fqn, "."))]

\* the Union[...] branch of _rewrite_annotation: every member that is the
\* name str is replaced
union_members(elts, alias) ==
    [i \in 1..Len(elts) |->
        IF elts[i].node = "Name" /\ elts[i].id = S_str THEN alias ELSE elts[i]]

\* `new_elts != ann.slice.elts`: ast nodes compare by identity, so the lists
\* differ exactly when a member was replaced
union_changed(elts) == \E i \in 1..Len(elts) : elts[i].node = "Name" /\ elts[i].id = S_str

\* the branches of _rewrite_annotation for a subscript whose value is a name
\* other than Optional
rewrite_container(ann, alias, slot) ==
    IF ann.value.id \in {S_List, S_list, S_Set, S_set}
    THEN IF slot \in {"self", "list_item", "set_item"}
         THEN Subscript(ann.value, alias) ELSE None
    ELSE IF ann.value.id \in {S_Dict, S_dict}
    THEN IF ann.slice.node = "Tuple" /\ Len(ann.slice.elts) = 2
            /\ slot \in {"self", "dict_value"}
         THEN Subscript(ann.value, TupleOf(<<ann.slice.elts[1], alias>>)) ELSE None
    ELSE IF ann.value.id = S_Union
    THEN IF ann.slice.node = "Tuple" /\ union_changed(ann.slice.elts)
         THEN Subscript(ann.value, TupleOf(union_members(ann.slice.elts, alias))) ELSE None
    ELSE None

RECURSIVE rewrite_annotation(_, _, _)
\* FieldRewriter._rewrite_annotation(ann, target), alias being make_alias()
\* and slot target.slot: the new annotation, or None
rewrite_annotation(ann, alias, slot) ==
    IF ann.node = "Name"
    THEN IF ann.id \in {S_str, S_int, S_float} /\ slot = "self" THEN alias ELSE None
    ELSE IF ann.node = "Subscript"
    THEN IF ann.value.node # "Name" THEN None
         ELSE IF ann.value.id = S_Annotated /\ slot = "self" THEN alias
         ELSE IF ann.value.id = S_Optional
         THEN With(rewrite_annotation(ann.slice, alias, "self"), LAMBDA inner :
                IF IsNone(inner) THEN None ELSE Subscript(ann.value, inner))
         ELSE rewrite_container(ann, alias, slot)
    ELSE IF ann.node = "BinOp"
    THEN With(rewrite_annotation(ann.left, alias, slot), LAMBDA left :
            IF IsNone(left) THEN None ELSE BitOr(left, ann.right))
    ELSE None

\* FieldRewriter.visit_AnnAssign(node) for the statement `field: annotation` of
\* class class_name ("" outside a class): the annotation the statement has
\* afterwards and the imports noted
visit_AnnAssign(class_name, field, annotation, field_targets) ==
    IF class_name = <<>> \/ (class_name \o <<".">> \o field) \notin DOMAIN field_targets
    THEN [annotation |-> annotation, imports_needed |-> {}]
    ELSE With(field_targets[class_name \o <<".">> \o field], LAMBDA target :
         With(rewrite_annotation(annotation, Name(alias_name_of(target.alias_fqn)),
                                 target.slot), LAMBDA new_ann :
            IF IsNone(new_ann) THEN [annotation |-> annotation, imports_needed |-> {}]
            ELSE [annotation |-> new_ann,
                  imports_needed |-> IF Len(RSplit1(target.alias_fqn, ".")) = 2
                                     THEN {target.alias_fqn} ELSE {}]))

-----------------------------------------------------------------------------
(* Bounds and input documents *)

\* the largest length and numeric bound a branch states
MaxLen == 2
\* the longest chain of definitions that refine one another
MaxDepth == 12

Lens == 1..MaxLen

HEX == <<"[", "0", "-", "9", "a", "-", "f", "]">>

\* the UUID pattern of the repository's tests, with the head of its third group
\* (the version nibble) left open
UuidPattern(version_part) ==
    <<"^">> \o HEX \o <<"{", "8", "}", "-">> \o HEX \o <<"{", "4", "}", "-">>
    \o version_part \o HEX \o <<"{", "3", "}", "-">>
    \o <<"[", "8", "9", "a", "b", "]">> \o HEX \o <<"{", "3", "}", "-">>
    \o HEX \o <<"{", "1", "2", "}", "$">>

\* version parts and the version characters each one allows
V_1_7 == [text |-> <<"[", "1", "-", "7", "]">>, versions |-> {"1", "2", "3", "4", "5", "6", "7"}]
V_7 == [text |-> <<"7">>, versions |-> {"7"}]
V_1_5 == [text |-> <<"[", "1", "-", "5", "]">>, versions |-> {"1", "2", "3", "4", "5"}]
V_47 == [text |-> <<"[", "4", "7", "]">>, versions |-> {"4", "7"}]
VersionParts == {V_1_7, V_7, V_1_5, V_47}

\* "^[a-z]+$"
LowerPattern == <<"^", "[", "a", "-", "z", "]", "+", "$">>
\* "^[1-9][0-9]{9,}$"
NanosPattern == <<"^", "[", "1", "-", "9", "]", "[", "0", "-", "9", "]",
                  "{", "9", ",", "}", "$">>

Ref(r) == ("$ref" :> r)
Chain(b1, b2) == ("allOf" :> <<b1, b2>>)

N_e == <<"e", ".", "j", "s", "o", "n">>
N_d == <<"d", ".", "j", "s", "o", "n">>
N_types == <<"t", "y", "p", "e", "s", ".", "j", "s", "o", "n">>
N_entity == <<"e", "n", "t", "i", "t", "y", ".", "j", "s", "o", "n">>
HostUri == <<"h", "t", "t", "p", ":", "/", "/", "h", "/">>
T_Entity == <<"E", "n", "t", "i", "t", "y">>

DefsPtr == <<"#", "/">> \o Spell["$defs"] \o <<"/">>
RefD == Ref(DefsPtr \o <<"D">>)
RefMissing == Ref(DefsPtr \o <<"M">>)

NestedChain == Chain(("type" :> "string"), ("minLength" :> 1))

FirstBranches ==
    {RefD, RefMissing, NestedChain, ("type" :> "object"),
     ("type" :> "string") @@ ("enum" :> <<<<"b">>, <<"a">>>>),
     ("type" :> "number") @@ ("exclusiveMinimum" :> MaxLen) @@ ("minimum" :> MaxLen),
     ("type" :> "number") @@ ("exclusiveMinimum" :> MaxLen)}
    \cup {("type" :> "string") @@ ("minLength" :> lo) @@ ("maxLength" :> hi) :
            lo \in Lens, hi \in Lens}
    \cup {("type" :> "string") @@ ("pattern" :> UuidPattern(v.text)) : v \in VersionParts}

SecondBranches ==
    {RefD, ("type" :> "string"), ("type" :> "integer") @@ ("minimum" :> 1),
     ("exclusiveMaximum" :> 1) @@ ("maximum" :> 1),
     ("enum" :> <<<<"b">>, <<"c">>>>), ("enum" :> <<<<"c">>>>),
     ("pattern" :> LowerPattern)}
    \cup {("minLength" :> lo) : lo \in Lens}
    \cup {("maxLength" :> hi) : hi \in Lens}
    \cup {("pattern" :> UuidPattern(v.text)) : v \in {V_1_7, V_7, V_1_5}}

PlainDef == ("type" :> "string") @@ ("minLength" :> MaxLen)
Definitions ==
    {PlainDef,
     ("type" :> "string") @@ ("pattern" :> UuidPattern(V_1_5.text)),
     Chain(("type" :> "integer") @@ ("minimum" :> 1), ("maximum" :> MaxLen)),
     Chain(("type" :> "string") @@ ("minLength" :> MaxLen), ("maxLength" :> MaxLen))}

\* with_id: the document declares "$id"; without it and without a base URL the
\* index mints a lithify:/// URI
Addressed(doc, name, with_id) ==
    IF with_id THEN doc @@ ("$id" :> HostUri \o name) ELSE doc

\* one document: a titled object with property p refining b1 by b2, and definition D
EntityDoc(b1, b2, def, with_id) ==
    Addressed(("title" :> T_Entity) @@ ("type" :> "object")
              @@ ("properties" :> (<<"p">> :> Chain(b1, b2)))
              @@ ("$defs" :> (<<"D">> :> def)),
              N_e, with_id)

SingleInputs ==
    {[files |-> (N_e :> EntityDoc(b1, b2, def, with_id)), base_url |-> <<>>] :
        b1 \in FirstBranches, b2 \in SecondBranches,
        def \in Definitions, with_id \in BOOLEAN}

\* only a chain that refers to D depends on what D is
SingleInputsUsed ==
    {s \in SingleInputs :
        LET doc == s.files[N_e]
            chain == doc["properties"][<<"p">>]["allOf"] IN
        /\ (RefD \notin {chain[1], chain[2]} => doc["$defs"][<<"D">>] = PlainDef)
        /\ (~Has(doc, "$id") => RefD \in {chain[1], chain[2]} \/ Has(chain[1], "minLength"))}

DefName(i) == <<"D">> \o Str(i)

\* definitions D1 .. Dd, each refining the next; only the last states a type
DeepDefs(d) ==
    [n \in {DefName(i) : i \in 1..d} |->
        LET i == CHOOSE k \in 1..d : DefName(k) = n IN
        IF i = d THEN Chain(("type" :> "string") @@ ("minLength" :> 1), ("maxLength" :> MaxLen))
        ELSE Chain(Ref(DefsPtr \o DefName(i + 1)), ("minLength" :> 1))]

DeepInputs ==
    {[files |-> (N_d :> Addressed(("$defs" :> DeepDefs(d)), N_d, TRUE)), base_url |-> <<>>] :
        d \in 1..MaxDepth}

\* the two documents of the specification's end-to-end scenario
TypesDoc == ("$defs" :> (<<"T", "i", "m", "e", "s", "t", "a", "m", "p">> :>
                (("type" :> "string") @@ ("pattern" :> DigitPattern))))
EntityRefiningTypes ==
    ("title" :> T_Entity) @@ ("type" :> "object")
    @@ ("properties" :> (<<"c", "r", "e", "a", "t", "e", "d", "_", "a", "t">> :>
          Chain(Ref(N_types \o DefsPtr \o <<"T", "i", "m", "e", "s", "t", "a", "m", "p">>),
                ("pattern" :> NanosPattern))))

TwoFileInputs ==
    {[files |-> (N_types :> Addressed(TypesDoc, N_types, with_id))
                @@ (N_entity :> Addressed(EntityRefiningTypes, N_entity, with_id)),
      base_url |-> url] :
        with_id \in BOOLEAN, url \in {<<>>, HostUri \o <<"s", "/">>}}

\* the entity document with a property that refers to the definition of the
\* types document directly
EntityReferringTypes ==
    ("title" :> T_Entity) @@ ("type" :> "object")
    @@ ("properties" :> (<<"a", "t">> :>
          Ref(N_types \o DefsPtr \o <<"T", "i", "m", "e", "s", "t", "a", "m", "p">>)))

CrossRefInputs ==
    {[files |-> (N_types :> Addressed(TypesDoc, N_types, with_id))
                @@ (N_entity :> Addressed(EntityReferringTypes, N_entity, with_id)),
      base_url |-> url] :
        with_id \in BOOLEAN, url \in {<<>>, HostUri \o <<"s", "/">>}}

N_a == <<"a", ".", "j", "s", "o", "n">>
N_b == <<"b", ".", "j", "s", "o", "n">>
UrnUri == <<"u", "r", "n", ":", "x", ":", "a">>
BaseUrl == HostUri \o <<"s", "/">>

\* a document whose definitions are named "a/b", "a~1b" and "X" (which carries
\* the anchor "x"), with a property named "p/q"
DocA ==
    ("title" :> <<"A">>)
    @@ ("$defs" :> ((<<"a", "/", "b">> :> ("type" :> "string"))
                    @@ (<<"a", "~", "1", "b">> :> ("type" :> "integer"))
                    @@ (<<"X">> :> (("$anchor" :> <<"x">>) @@ ("type" :> "string")))))
    @@ ("properties" :> (<<"p", "/", "q">> :>
                            Chain(Ref(DefsPtr \o <<"X">>), ("minLength" :> 1))))

\* the identifiers document a.json may declare; <<>>: it declares none
IdsOfA == {<<>>, HostUri \o N_a, UrnUri}

DocAWith(id) == IF id = <<>> THEN DocA ELSE DocA @@ ("$id" :> id)

\* the second document: it declares http://h/b.json, and its definition N
\* declares nothing, or the relative identifier "a.json"; or the document
\* declares the identifier of a.json itself
DocsB ==
    {("$id" :> HostUri \o N_b) @@ ("$defs" :> (<<"N">> :> ("type" :> "string"))),
     ("$id" :> HostUri \o N_b)
        @@ ("$defs" :> (<<"N">> :> (("$id" :> N_a) @@ ("type" :> "string")))),
     ("$id" :> HostUri \o N_a) @@ ("$defs" :> (<<"N">> :> ("type" :> "string")))}

\* the name overrides a titled node carries: a class name, the empty string,
\* two that are no identifiers, a keyword, and one starting with an underscore
OverrideNames ==
    {<<"A", "x">>, <<>>, <<"1", "a">>, <<"a", "-", "b">>, <<"i", "f">>, <<"_", "A">>}

\* a.json with the override on its root, or on its titled definition X
OverrideDocs ==
    {("title" :> <<"A">>) @@ ("x-python-class-name" :> name)
        @@ ("$defs" :> (<<"X">> :> PlainDef)) : name \in OverrideNames}
    \cup
    {("title" :> <<"A">>)
        @@ ("$defs" :> (<<"X">> :> (("title" :> <<"T">>) @@ ("x-python-class-name" :> name)
                                    @@ PlainDef))) : name \in OverrideNames}

OverrideInputs ==
    {[files |-> (N_a :> Addressed(doc, N_a, with_id)), base_url |-> url] :
        doc \in OverrideDocs, with_id \in BOOLEAN, url \in {<<>>, BaseUrl}}

\* two files named a.json in the directories x and y of json_dir, neither
\* declaring an identifier
DirectoryInputs ==
    {[files |-> ((<<"x", "/">> \o N_a) :> (("title" :> <<"A">>) @@ ("type" :> "string")))
                @@ ((<<"y", "/">> \o N_a) :> (("title" :> <<"B">>) @@ ("type" :> "integer"))),
      base_url |-> url] : url \in {<<>>, BaseUrl}}

IndexInputs ==
    {[files |-> (N_a :> DocAWith(id)), base_url |-> url] :
        id \in IdsOfA, url \in {<<>>, BaseUrl}}
    \cup {[files |-> (N_a :> DocAWith(id)) @@ (N_b :> b), base_url |-> url] :
            id \in IdsOfA, b \in DocsB, url \in {<<>>, BaseUrl}}
    \cup OverrideInputs \cup DirectoryInputs

\* a titled object document
Titled(title, properties) ==
    ("title" :> title) @@ ("type" :> "object") @@ ("properties" :> properties)

\* an inline refinement that collapses in either mode
ChainP == Chain(("type" :> "string") @@ ("minLength" :> 1), ("maxLength" :> MaxLen))
\* another one, of integers
ChainN == Chain(("type" :> "integer") @@ ("minimum" :> 1), ("maximum" :> MaxLen))

\* Documents whose inline refinements share a property name: two documents
\* that both refine their property p; one document that refines p and the
\* property p of the object under its property q; one document whose title
\* carries a name override.
InlineInputs ==
    {[files |-> (N_a :> Addressed(Titled(<<"A">>, (<<"p">> :> ChainP)), N_a, with_id))
                @@ (N_b :> Addressed(Titled(<<"B">>, (<<"p">> :> ChainN)), N_b, with_id)),
      base_url |-> <<>>] : with_id \in BOOLEAN}
    \cup
    {[files |-> (N_a :> Addressed(Titled(<<"A">>,
                                        (<<"p">> :> first)
                                        @@ (<<"q">> :> (("type" :> "object")
                                                @@ ("properties" :> (<<"p">> :> ChainN))))),
                                 N_a, with_id)),
      base_url |-> <<>>] : with_id \in BOOLEAN, first \in {ChainP, ("type" :> "boolean")}}
    \cup
    {[files |-> (N_a :> Addressed(Titled(<<"A">>, (<<"p">> :> ChainP))
                                 @@ ("x-python-class-name" :> <<"A", "x">>), N_a, with_id)),
      base_url |-> <<>>] : with_id \in BOOLEAN}

RefX == Ref(DefsPtr \o <<"X">>)

\* One document whose properties refer to its definition X from every
\* container position: directly (property iD), as the items of an array (l),
\* as the values of a map (m) and as a member of a union (u); t_ns is a
\* nanosecond field.
SlotDoc ==
    Titled(<<"M">>,
           (<<"i", "D">> :> RefX)
           @@ (<<"l">> :> (("type" :> "array") @@ ("items" :> RefX)))
           @@ (<<"m">> :> (("type" :> "object") @@ ("additionalProperties" :> RefX)))
           @@ (<<"u">> :> ("anyOf" :> <<RefX, ("type" :> "integer")>>))
           @@ (<<"t", "_", "n", "s">> :> (("type" :> "string") @@ ("pattern" :> DigitPattern))))
    @@ ("$defs" :> (<<"X">> :> (("type" :> "string") @@ ("minLength" :> 1))))

SlotInputs ==
    {[files |-> (N_a :> Addressed(SlotDoc, N_a, with_id)), base_url |-> url] :
        with_id \in BOOLEAN, url \in {<<>>, BaseUrl}}

\* a document whose title is the name of one of its definitions, both being
\* constrained strings
SameNameInputs ==
    {[files |-> (N_a :> Addressed(("title" :> <<"X">>) @@ ("type" :> "string")
                                  @@ ("minLength" :> 1)
                                  @@ ("$defs" :> (<<"X">> :> PlainDef)), N_a, with_id)),
      base_url |-> <<>>] : with_id \in BOOLEAN}

\* the identifier the object under property q declares
NestedUri == HostUri \o <<"s", "u", "b", "/", "q", ".", "j", "s", "o", "n">>

\* the object under property q: it declares its own "$id", refines its
\* property p from "#/$defs/D", and has a definition D of its own
RebasedObject ==
    ("$id" :> NestedUri) @@ ("type" :> "object")
    @@ ("properties" :> (<<"p">> :> Chain(RefD, ("maxLength" :> MaxLen))))
    @@ ("$defs" :> (<<"D">> :> (("type" :> "string") @@ ("pattern" :> LowerPattern))))

\* a document with a subtree rebased by a nested identifier; the document has
\* a definition D as well, or none
NestedIdInputs ==
    {[files |-> (N_a :> Addressed(Titled(<<"A">>, (<<"q">> :> RebasedObject))
                                  @@ defs, N_a, TRUE)),
      base_url |-> <<>>] : defs \in {EmptyDict, ("$defs" :> (<<"D">> :> PlainDef))}}

\* definitions that are chains referring to themselves: D refines D, or D
\* refines E and E refines D
CircularDefs ==
    {(<<"D">> :> Chain(RefD, ("type" :> "string") @@ ("maxLength" :> MaxLen))),
     (<<"D">> :> Chain(Ref(DefsPtr \o <<"E">>), ("type" :> "string") @@ ("minLength" :> 1)))
        @@ (<<"E">> :> Chain(RefD, ("type" :> "string") @@ ("maxLength" :> MaxLen)))}

CircularInputs ==
    {[files |-> (N_a :> Addressed(("$defs" :> defs), N_a, with_id)), base_url |-> <<>>] :
        defs \in CircularDefs, with_id \in BOOLEAN}

\* a titled document whose definition D has a title or none, and whose
\* property q refers to D or does not
TitledDefInputs ==
    {[files |-> (N_a :> Addressed(Titled(<<"A">>, (<<"q">> :> q))
                                  @@ ("$defs" :> (<<"D">> :> (title @@ PlainDef))),
                                  N_a, TRUE)),
      base_url |-> <<>>] :
        q \in {RefD, ("type" :> "boolean")},
        title \in {EmptyDict, ("title" :> <<"D">>)}}

CollapseInputs ==
    SingleInputsUsed \cup DeepInputs \cup TwoFileInputs \cup InlineInputs \cup SlotInputs
    \cup SameNameInputs \cup NestedIdInputs \cup CircularInputs \cup TitledDefInputs
    \cup CrossRefInputs

\* the annotations the generated models are rewritten from: scalars, a scalar
\* with inline constraints, containers of them, containers of containers, and
\* each of these optional in either spelling
ScalarAnnotations ==
    {Name(S_str), Name(S_int), Name(S_float), Name(S_bool),
     Subscript(Name(S_Annotated), TupleOf(<<Name(S_str), CallOf(Name(<<"F">>))>>))}

ContainersOf(elements) ==
    {Subscript(Name(c), e) : c \in {S_List, S_list, S_Set}, e \in elements}
    \cup {Subscript(Name(S_Dict), TupleOf(<<Name(S_str), e>>)) : e \in elements}

NestedContainers ==
    {Subscript(Name(S_List), e) : e \in ContainersOf({Name(S_str), Name(S_int)})}
    \cup {Subscript(Name(S_Dict), TupleOf(<<Name(S_str), e>>)) :
            e \in ContainersOf({Name(S_str)})}

UnionAnnotations ==
    {Subscript(Name(S_Union), TupleOf(elts)) :
        elts \in {<<Name(S_str), Name(S_int)>>, <<Name(S_int), Name(S_str)>>,
                  <<Name(S_str), NoneConstant>>, <<Name(S_int), NoneConstant>>}}

PlainAnnotations == ScalarAnnotations \cup ContainersOf(ScalarAnnotations) \cup NestedContainers

Annotations ==
    PlainAnnotations
    \cup {Subscript(Name(S_Optional), a) : a \in PlainAnnotations}
    \cup {BitOr(a, NoneConstant) : a \in PlainAnnotations}
    \cup UnionAnnotations

\* the slots build_field_map gives a target
Slots == {"self", "list_item", "dict_value", "union_member"}

\* the field targets of the model M with the field f; the alias X of module
\* pkg.a, or an alias given without its module
RewriteTargets ==
    {FieldTarget(<<"M">>, <<"f">>, fqn, slot) :
        fqn \in {PackageName \o <<".", "a", ".", "X">>, <<"X">>}, slot \in Slots}

\* the statements `field: annotation` the rewriter visits: in class M or at
\* module level, the field being f or g
Statements ==
    [class_name : {<<"M">>, <<>>}, field : {<<"f">>, <<"g">>}, annotation : Annotations]

\* the values the keywords of a classified node have
KeywordValue ==
    ("pattern" :> LowerPattern) @@ ("minLength" :> 1) @@ ("minimum" :> 1)
    @@ ("enum" :> << <<"a">>, <<"b">> >>) @@ ("const" :> <<"a">>)
    @@ ("oneOf" :> <<("type" :> "string") @@ ("pattern" :> LowerPattern), PlainDef>>)
    @@ ("anyOf" :> <<PlainDef, ("type" :> "integer")>>)
    @@ ("properties" :> ("p" :> PlainDef))
    @@ ("additionalProperties" :> PlainDef)
    @@ ("items" :> PlainDef)
    @@ ("$ref" :> DefsPtr \o <<"X">>)

\* the values of "type": a type name, or a list of type names
TypeValues == {"string", "integer", "number", "object", "array", "boolean"} \cup TypeLists

\* the node with the keywords keys, and with "type" when type_val is not None
NodeWith(type_val, keys) ==
    [k \in keys \cup (IF type_val = "None" THEN {} ELSE {"type"}) |->
        IF k = "type" THEN type_val ELSE KeywordValue[k]]

\* the nodes classified: every value of "type", "type" missing, up to two more
\* keywords, and a boolean schema
ClassifyInputs ==
    {NodeWith(type_val, keys) :
        type_val \in TypeValues \cup {"None"},
        keys \in {ks \in SUBSET (DOMAIN KeywordValue) : Cardinality(ks) <= 2}}
    \cup {NonDict}

\* the pure-fragment references the lookups are made with
FragmentRefs == {DefsPtr \o <<"X">>, <<"#", "x">>}

RECURSIVE PathsFrom(_, _, _)
\* the key sequences that lead from an object to the subschemas, name maps and
\* lists below it
PathsFrom(cur, kind, path) ==
    {path} \cup
    (IF kind = "node"
     THEN UNION {PathsFrom(cur[k], ValueKind(k), Append(path, Spell[k])) :
                    k \in {x \in DOMAIN cur : ValueKind(x) # "scalar"}}
     ELSE IF kind = "namemap"
     THEN UNION {PathsFrom(cur[n], "node", Append(path, n)) : n \in DOMAIN cur}
     ELSE UNION {PathsFrom(cur[i], "node", Append(path, Str(i - 1))) : i \in 1..Len(cur)})

RECURSIVE PointerOf(_)
\* the JSON Pointer (RFC 6901) of a key sequence: "/" before every key, "~"
\* written "~0" and "/" written "~1"
PointerOf(path) ==
    IF Len(path) = 0 THEN <<>>
    ELSE <<"/">> \o escape(path[1]) \o PointerOf(Tail(path))

-----------------------------------------------------------------------------
(* process_allof_collapse as a state machine *)

max_iterations == 10

NoRun == [files |-> EmptyDict, loop_end |-> ""]

\* no lookup made yet
NoQuery == [kind |-> "none"]

\* nothing synthesized yet
NoSlas ==
    [exc |-> "", all_refs |-> {}, ref_map |-> EmptyDict, modules_created |-> EmptyDict,
     alias_files |-> EmptyDict, field_map |-> EmptyDict]

\* process_allof_collapse is entered with the index SchemaIndex.load built from
\* the files of json_dir
InitCollapse ==
    /\ mode = "collapse"
    /\ \E input \in CollapseInputs :
        /\ files = input.files
        /\ base_url = input.base_url
    /\ strict \in BOOLEAN
    /\ pc = "pass"
    /\ todo = Sorted(DOMAIN files)

\* SchemaIndex.load has returned and the index is about to be queried
InitIndex ==
    /\ mode = "index"
    /\ \E input \in IndexInputs :
        /\ files = input.files
        /\ base_url = input.base_url
    /\ strict = TRUE
    /\ pc = "loaded"
    /\ todo = <<>>

\* rewrite_models has parsed a generated module and FieldRewriter visits one of
\* its annotated assignments
InitRewrite ==
    /\ mode = "rewrite"
    /\ files = EmptyDict
    /\ base_url = <<>>
    /\ strict = TRUE
    /\ pc = "parsed"
    /\ todo = <<>>

\* the alias generator is about to classify a schema node
InitClassify ==
    /\ mode = "classify"
    /\ files = EmptyDict
    /\ base_url = <<>>
    /\ strict = TRUE
    /\ pc = "node"
    /\ todo = <<>>

Init ==
    /\ (InitCollapse \/ InitIndex \/ InitRewrite \/ InitClassify)
    /\ index = load(files, base_url)
    /\ caller_index = index
    /\ run = 1
    /\ rerun_index = ""
    /\ iteration = 0
    /\ errors = <<>>
    /\ iteration_collapsed = 0
    /\ total_collapsed = 0
    /\ inline_allofs = <<>>
    /\ warned = {}
    /\ step_events = <<>>
    /\ step_failures = <<>>
    /\ loop_end = ""
    /\ first_run = NoRun
    /\ query = NoQuery
    /\ answer = None
    /\ slas = NoSlas

\* One turn of `for schema_file in sorted(json_dir.glob("*.json"))`: the file is
\* read, walked, its chains collapsed, and written back when modified.
ProcessFile ==
    /\ mode = "collapse" /\ pc = "pass" /\ todo # <<>>
    /\ \E r \in {process_file(Head(todo), files[Head(todo)], index, strict)} :
           /\ files' = [files EXCEPT ![Head(todo)] = r.doc]
           /\ errors' = errors \o r.failures
           /\ iteration_collapsed' = iteration_collapsed + r.collapsed
           /\ inline_allofs' = inline_allofs \o r.inline
           /\ warned' = warned \cup r.warnings
           /\ step_events' = r.events
           /\ step_failures' = r.failures
    /\ todo' = Tail(todo)
    /\ UNCHANGED <<mode, base_url, strict, index, caller_index, pc, run, rerun_index,
                   iteration, total_collapsed, loop_end, first_run, query, answer, slas>>

\* `if iteration_collapsed == 0: break`
FixpointReached ==
    /\ mode = "collapse" /\ pc = "pass" /\ todo = <<>>
    /\ iteration_collapsed = 0
    /\ pc' = "after_loop"
    /\ loop_end' = "fixpoint"
    /\ step_events' = <<>>
    /\ step_failures' = <<>>
    /\ UNCHANGED <<mode, files, base_url, strict, index, caller_index, run, rerun_index,
                   iteration, todo, errors, iteration_collapsed, total_collapsed,
                   inline_allofs, warned, first_run, query, answer, slas>>

\* The pass collapsed something: the index is rebuilt from the files and the
\* next pass starts.
NextPass ==
    /\ mode = "collapse" /\ pc = "pass" /\ todo = <<>>
    /\ iteration_collapsed > 0
    /\ iteration + 1 < max_iterations
    /\ total_collapsed' = total_collapsed + iteration_collapsed
    /\ index' = load(files, index.base_url)
    /\ iteration' = iteration + 1
    /\ errors' = <<>>
    /\ iteration_collapsed' = 0
    /\ todo' = Sorted(DOMAIN files)
    /\ step_events' = <<>>
    /\ step_failures' = <<>>
    /\ UNCHANGED <<mode, files, base_url, strict, caller_index, pc, run, rerun_index,
                   inline_allofs, warned, loop_end, first_run, query, answer, slas>>

\* The last of the max_iterations passes collapsed something: the index is
\* rebuilt, the loop is exhausted and its else clause warns.
BoundReached ==
    /\ mode = "collapse" /\ pc = "pass" /\ todo = <<>>
    /\ iteration_collapsed > 0
    /\ iteration + 1 = max_iterations
    /\ total_collapsed' = total_collapsed + iteration_collapsed
    /\ index' = load(files, index.base_url)
    /\ warned' = warned \cup {[kind |-> "max_iterations", file |-> <<>>, json_pointer |-> <<>>]}
    /\ pc' = "after_loop"
    /\ loop_end' = "bound"
    /\ step_events' = <<>>
    /\ step_failures' = <<>>
    /\ UNCHANGED <<mode, files, base_url, strict, caller_index, run, rerun_index,
                   iteration, todo, errors, iteration_collapsed,
                   inline_allofs, first_run, query, answer, slas>>

\* `if errors and strict: raise RuntimeError(...)`
Raise ==
    /\ mode = "collapse" /\ pc = "after_loop"
    /\ errors # <<>> /\ strict
    /\ pc' = "raised"
    /\ UNCHANGED <<mode, files, base_url, strict, index, caller_index, run, rerun_index,
                   iteration, todo, errors, iteration_collapsed, total_collapsed,
                   inline_allofs, warned, step_events, step_failures, loop_end,
                   first_run, query, answer, slas>>

\* `return json_dir, inline_allofs`
Return ==
    /\ mode = "collapse" /\ pc = "after_loop"
    /\ ~(errors # <<>> /\ strict)
    /\ pc' = "returned"
    /\ UNCHANGED <<mode, files, base_url, strict, index, caller_index, run, rerun_index,
                   iteration, todo, errors, iteration_collapsed, total_collapsed,
                   inline_allofs, warned, step_events, step_failures, loop_end,
                   first_run, query, answer, slas>>

\* process_allof_collapse is called again on the files it left, with the index
\* object of the first call or with an index loaded from those files.
Rerun ==
    /\ mode = "collapse" /\ pc = "returned" /\ run = 1
    /\ run' = 2
    /\ rerun_index' \in {"caller", "reloaded"}
    /\ index' = IF rerun_index' = "caller" THEN caller_index ELSE load(files, base_url)
    /\ first_run' = [files |-> files, loop_end |-> loop_end]
    /\ pc' = "pass"
    /\ iteration' = 0
    /\ todo' = Sorted(DOMAIN files)
    /\ errors' = <<>>
    /\ iteration_collapsed' = 0
    /\ total_collapsed' = 0
    /\ inline_allofs' = <<>>
    /\ loop_end' = ""
    /\ UNCHANGED <<mode, files, base_url, strict, caller_index, warned,
                   step_events, step_failures, query, answer, slas>>

\* The orchestrator after process_allof_collapse has returned: the index is
\* loaded again from the collapsed files, emit_alias_modules writes the alias
\* modules, emit_inline_allof_aliases adds the aliases of the inline
\* refinements and the two reference maps are merged.  An exception ends the run.
EmitAliases ==
    /\ mode = "collapse" /\ pc = "returned" /\ run = 1
    /\ index' = load(files, base_url)
    /\ \E out \in {emit_inline_allof_aliases(emit_alias_modules(index', files),
                                              inline_allofs)} :
        slas' = [exc |-> out.exc, all_refs |-> all_refs(index'), ref_map |-> out.ref_map,
                 modules_created |-> out.modules_created,
                 alias_files |-> out.alias_files, field_map |-> EmptyDict]
    /\ pc' = "emitted"
    /\ UNCHANGED <<mode, files, base_url, strict, caller_index, run, rerun_index,
                   iteration, todo, errors, iteration_collapsed, total_collapsed,
                   inline_allofs, warned, step_events, step_failures, loop_end,
                   first_run, query, answer>>

\* `st.field_map = build_field_map(st.schema_index, ref_map, st.safe_json_dir, ...)`
BuildFieldMap ==
    /\ mode = "collapse" /\ pc = "emitted" /\ slas.exc = ""
    /\ slas' = [slas EXCEPT !.field_map = build_field_map(index, slas.ref_map, files)]
    /\ pc' = "mapped"
    /\ UNCHANGED <<mode, files, base_url, strict, index, caller_index, run, rerun_index,
                   iteration, todo, errors, iteration_collapsed, total_collapsed,
                   inline_allofs, warned, step_events, step_failures, loop_end,
                   first_run, query, answer>>

\* the variables of process_allof_collapse, which the lookups leave alone
collapse_vars ==
    <<mode, files, base_url, strict, index, caller_index, run, rerun_index,
      iteration, todo, errors, iteration_collapsed, total_collapsed,
      inline_allofs, warned, step_events, step_failures, loop_end, first_run, slas>>

\* index.node_for(uri), uri being the URI SchemaIndex.load gave a document
NodeForDocument ==
    /\ mode = "index" /\ pc = "loaded" /\ ~index.exited
    /\ \E name \in DOMAIN files :
        \E uri \in {doc_uri_of(files[name], name, base_url)} :
            /\ query' = [kind |-> "document", file |-> name, path |-> <<>>,
                          uri |-> uri, ref |-> <<>>]
            /\ answer' = node_for(index, uri)
    /\ pc' = "answered"
    /\ UNCHANGED collapse_vars

\* index.node_for(doc_uri + "#" + pointer), the pointer leading to an object
\* below the root of a loaded document
NodeForPointer ==
    /\ mode = "index" /\ pc = "loaded" /\ ~index.exited
    /\ \E name \in DOMAIN files :
        \E path \in PathsFrom(files[name], "node", <<>>) \ {<<>>} :
        \E uri \in {doc_uri_of(files[name], name, base_url)} :
            /\ query' = [kind |-> "pointer", file |-> name, path |-> path,
                          uri |-> uri, ref |-> <<"#">> \o PointerOf(path)]
            /\ answer' = node_for(index, uri \o <<"#">> \o PointerOf(path))
    /\ pc' = "answered"
    /\ UNCHANGED collapse_vars

\* index.resolve_ref(ref, doc_uri), ref being a pure fragment
ResolveRef ==
    /\ mode = "index" /\ pc = "loaded" /\ ~index.exited
    /\ \E name \in DOMAIN files, ref \in FragmentRefs :
        \E uri \in {doc_uri_of(files[name], name, base_url)} :
            /\ query' = [kind |-> "resolve_ref", file |-> name, path |-> <<>>,
                          uri |-> uri, ref |-> ref]
            /\ answer' = [uri |-> resolve_ref(ref, uri)]
    /\ pc' = "answered"
    /\ UNCHANGED collapse_vars

\* resolve_uri(doc_uri, ref), ref being a pure fragment
ResolveUri ==
    /\ mode = "index" /\ pc = "loaded" /\ ~index.exited
    /\ \E name \in DOMAIN files, ref \in FragmentRefs :
        \E uri \in {doc_uri_of(files[name], name, base_url)} :
            /\ query' = [kind |-> "resolve_uri", file |-> name, path |-> <<>>,
                          uri |-> uri, ref |-> ref]
            /\ answer' = [pair |-> resolve_uri(uri, ref)]
    /\ pc' = "answered"
    /\ UNCHANGED collapse_vars

\* FieldRewriter.visit_AnnAssign on one statement, the rewriter holding one
\* field target
VisitAnnAssign ==
    /\ mode = "rewrite" /\ pc = "parsed"
    /\ \E statement \in Statements, target \in RewriteTargets :
        /\ query' = [kind |-> "AnnAssign", class_name |-> statement.class_name,
                     field |-> statement.field, annotation |-> statement.annotation,
                     target |-> target]
        /\ answer' = visit_AnnAssign(statement.class_name, statement.field,
                                     statement.annotation,
                                     set_target(EmptyDict, target))
    /\ pc' = "visited"
    /\ UNCHANGED collapse_vars

\* classify_shape(schema) on one node: the tag returned or the exception
\* raised, and the node as the call leaves it (classify_shape and its helpers
\* assign to no key of schema)
ClassifyShape ==
    /\ mode = "classify" /\ pc = "node"
    /\ \E schema \in ClassifyInputs :
        /\ query' = [kind |-> "classify_shape", schema |-> schema]
        /\ \E r \in {classify_shape(schema)} :
            answer' = [exc |-> r.exc, shape |-> r.shape, schema |-> schema]
    /\ pc' = "classified"
    /\ UNCHANGED collapse_vars

Next ==
    \/ ProcessFile
    \/ FixpointReached
    \/ NextPass
    \/ BoundReached
    \/ Raise
    \/ Return
    \/ Rerun
    \/ EmitAliases
    \/ BuildFieldMap
    \/ NodeForDocument
    \/ NodeForPointer
    \/ ResolveRef
    \/ ResolveUri
    \/ VisitAnnAssign
    \/ ClassifyShape

Spec == Init /\ [][Next]_vars

-----------------------------------------------------------------------------
(* The claims about the Refinement Collapser *)

\* the values the branches of a chain state under a keyword
Stated(branches, key) == Range(Collect(branches, key))

\* No value meets every branch: the length bounds, the inclusive bounds or the
\* exclusive bounds of the branches cross, or their enumerations share no value.
Unsatisfiable(branches) ==
    \/ \E lo \in Stated(branches, "minLength"), hi \in Stated(branches, "maxLength") :
            lo > hi
    \/ \E lo \in Stated(branches, "minimum"), hi \in Stated(branches, "maximum") :
            lo > hi
    \/ \E lo \in Stated(branches, "exclusiveMinimum"),
           hi \in Stated(branches, "exclusiveMaximum") : lo >= hi
    \/ /\ Len(Collect(branches, "enum")) > 0
       /\ Intersection(enum_sets(Collect(branches, "enum"))) = {}

\* the places of the refinement chains of the documents an index was built from
ChainsOf(ix) ==
    {pl \in UNION {{Place(f, path) : path \in PathsFrom(ix.parsed[f], "node", <<>>)} :
                    f \in DOMAIN ix.parsed} :
        /\ At(ix.parsed, pl).kind = "node"
        /\ is_allof_refinement(Deref(ix.parsed, pl))}

\* the chains among them whose branches resolve and are unsatisfiable
UnsatisfiableChains(ix) ==
    {pl \in ChainsOf(ix) :
        \E r \in {resolve_allof_branches(Deref(ix.parsed, pl)["allOf"], ix,
                                          doc_uri_for_path(ix, pl.file))} :
            r.exc = "" /\ Unsatisfiable(r.branches)}

\* C1: in strict mode no refinement chain whose merged constraints are
\* unsatisfiable is replaced by a collapsed node, and a run over documents
\* that hold such a chain ends with an error, not with a normal return.
C1_StrictNeverCollapsesUnsatisfiable ==
    strict =>
        /\ \A i \in 1..Len(step_events) : ~Unsatisfiable(step_events[i].branches)
        /\ (pc = "returned" /\ run = 1 => UnsatisfiableChains(caller_index) = {})

\* C2: once process_allof_collapse has returned, a second call on its output
\* with the same index object collapses nothing and leaves every document as
\* it was.
C2_RerunCollapsesNothing ==
    (run = 2 /\ rerun_index = "caller") =>
        /\ iteration_collapsed = 0
        /\ total_collapsed = 0
        /\ files = first_run.files

\* C3: a run whose loop used up its max_iterations passes with chains still
\* collapsing has warned, and it does not raise, strict or not.
C3_BoundIsOnlyAWarning ==
    loop_end = "bound" =>
        /\ \E w \in warned : w.kind = "max_iterations"
        /\ pc # "raised"

\* C4: a chain with a branch whose reference cannot be resolved (here the
\* reference to a definition that no document has) makes the run fail: no run
\* returns normally with such a failure, strict or lenient.
C4_UnresolvableAlwaysFatal ==
    \A i \in 1..Len(errors) :
        (errors[i].kind = "cannot_resolve" /\ errors[i].ref = RefMissing["$ref"])
            => pc # "returned"

\* C5: no chain failure is silent.  A strict run that returns has no failure
\* left, and a lenient run that returns has warned about every chain it left
\* uncollapsed.
C5_NoSilentChainFailure ==
    pc = "returned" =>
        IF strict THEN errors = <<>>
        ELSE \A i \in 1..Len(errors) :
                \E w \in warned : /\ w.file = errors[i].file
                                  /\ w.json_pointer = errors[i].json_pointer

\* what the documents hold where a chain was collapsed
HeldAt(ev) ==
    Deref(files, resolve_pointer(files, Place(ev.file, <<>>), ev.json_pointer).place)

\* no minLength of a branch exceeds a maxLength of a branch
LengthsAgree(branches) ==
    \A lo \in Stated(branches, "minLength"), hi \in Stated(branches, "maxLength") :
        lo <= hi

\* v is the largest (smallest) value of S
IsGreatest(v, S) == v \in S /\ \A x \in S : x <= v
IsLeast(v, S) == v \in S /\ \A x \in S : v <= x

\* the chain of event ev became a single node with the tightest length bounds
TightestLengths(ev) ==
    /\ HeldAt(ev) = ev.after
    /\ ~Has(ev.after, "allOf")
    /\ Has(ev.after, "minLength") = (Stated(ev.branches, "minLength") # {})
    /\ Has(ev.after, "maxLength") = (Stated(ev.branches, "maxLength") # {})
    /\ (Has(ev.after, "minLength")
            => IsGreatest(ev.after["minLength"], Stated(ev.branches, "minLength")))
    /\ (Has(ev.after, "maxLength")
            => IsLeast(ev.after["maxLength"], Stated(ev.branches, "maxLength")))

\* C9: a chain whose branches' length constraints do not conflict collapses
\* to a single node whose minLength is the largest minLength of its branches
\* and whose maxLength is the smallest maxLength of its branches.
C9_LengthsMergeToTightest ==
    \A i \in 1..Len(step_events) :
        LengthsAgree(step_events[i].branches) => TightestLengths(step_events[i])

\* a chain has collapsed whose branches state two different minLength values
\* and a maxLength that admits both
C9_Witness ==
    \E i \in 1..Len(step_events) :
        /\ Cardinality(Stated(step_events[i].branches, "minLength")) = 2
        /\ Stated(step_events[i].branches, "maxLength") # {}
        /\ LengthsAgree(step_events[i].branches)

\* the version characters a UUID pattern of the input documents allows
IsUuidPattern(pattern) == \E v \in VersionParts : UuidPattern(v.text) = pattern
VersionSetOf(pattern) ==
    (CHOOSE v \in VersionParts : UuidPattern(v.text) = pattern).versions

\* the chain of event ev has exactly two patterns, both UUID patterns, and the
\* k-th allows a strict subset of the versions the other allows
NarrowerPattern(ev, k) ==
    \E pats \in {Collect(ev.branches, "pattern")} :
        /\ Len(pats) = 2
        /\ IsUuidPattern(pats[1]) /\ IsUuidPattern(pats[2])
        /\ VersionSetOf(pats[k]) \subseteq VersionSetOf(pats[3 - k])
        /\ VersionSetOf(pats[k]) # VersionSetOf(pats[3 - k])

\* C10: when a chain has exactly two UUID patterns and one allows a strict
\* subset of the versions of the other, the collapsed node keeps the pattern
\* with the smaller version set, whether it is the first or the second.
C10_KeepsNarrowerUuidPattern ==
    \A i \in 1..Len(step_events) : \A k \in {1, 2} :
        NarrowerPattern(step_events[i], k) =>
            /\ HeldAt(step_events[i]) = step_events[i].after
            /\ step_events[i].after["pattern"]
                    = Collect(step_events[i].branches, "pattern")[k]

\* a chain has collapsed whose second pattern is the narrower one
C10_Witness ==
    \E i \in 1..Len(step_events) : NarrowerPattern(step_events[i], 2)

\* the chain a recorded failure is about, as the files hold it, and its
\* branches as the index resolves them
ChainOf(f) ==
    Deref(files, resolve_pointer(files, Place(f.file, <<>>), f.json_pointer).place)
BranchesOf(f) ==
    resolve_allof_branches(ChainOf(f)["allOf"], index, doc_uri_for_path(index, f.file))

\* the chain of a recorded failure is in the files as it was when the pass began
LeftAlone(f) ==
    \E at \in {resolve_pointer(files, Place(f.file, <<>>), f.json_pointer).place} :
        /\ is_allof_refinement(Deref(files, at))
        /\ Deref(files, at) = Deref(index.parsed, at)

\* a warning of the given kind was emitted for the chain of event ev
WarnedOf(ev, kind) ==
    [kind |-> kind, file |-> ev.file, json_pointer |-> ev.json_pointer] \in warned

\* the branches state exactly two patterns, both UUID patterns, and no version
\* is allowed by both
DisjointVersions(branches) ==
    \E pats \in {Collect(branches, "pattern")} :
        /\ Len(pats) = 2
        /\ IsUuidPattern(pats[1]) /\ IsUuidPattern(pats[2])
        /\ VersionSetOf(pats[1]) \cap VersionSetOf(pats[2]) = {}

\* the failure recorded for a chain names the version sets of its two patterns
NamesBothVersionSets(f, branches) ==
    /\ f.kind = "uuid_conflict"
    /\ f.versions = <<VersionSetOf(Collect(branches, "pattern")[1]),
                      VersionSetOf(Collect(branches, "pattern")[2])>>

\* C11: when the two UUID patterns of a chain's resolved branches allow no
\* common version, strict mode records an error naming both version sets,
\* leaves the chain as it was and does not return normally; lenient mode warns,
\* collapses the chain and keeps the first branch's pattern.
C11_DisjointUuidVersions ==
    /\ \A i \in 1..Len(step_events) :
          DisjointVersions(step_events[i].branches) =>
            /\ ~strict
            /\ WarnedOf(step_events[i], "pattern_conflict")
            /\ HeldAt(step_events[i]) = step_events[i].after
            /\ ~Has(step_events[i].after, "allOf")
            /\ step_events[i].after["pattern"] = step_events[i].branches[1]["pattern"]
    /\ \A i \in 1..Len(step_failures) :
          \E r \in {BranchesOf(step_failures[i])} :
            (/\ r.exc = ""
             /\ validate_scalar_types(r.branches).exc = ""
             /\ DisjointVersions(r.branches)) =>
                /\ strict
                /\ NamesBothVersionSets(step_failures[i], r.branches)
                /\ LeftAlone(step_failures[i])
    /\ \A i \in 1..Len(errors) :
          errors[i].kind = "uuid_conflict" => strict /\ pc # "returned"

\* a strict run has raised over a chain whose two UUID patterns allow no common
\* version
C11_Witness ==
    /\ pc = "raised"
    /\ \E i \in 1..Len(errors) :
          /\ errors[i].kind = "uuid_conflict"
          /\ errors[i].versions[1] \cap errors[i].versions[2] = {}

\* the enum sets the branches state, and the values every one of them allows
EnumsOf(branches) == {Range(e) : e \in Range(Collect(branches, "enum"))}
AllowedByAll(branches) ==
    {v \in UNION EnumsOf(branches) : \A e \in EnumsOf(branches) : v \in e}

\* the enum of the first branch that has one, as a set
FirstEnum(branches) == Range(Collect(branches, "enum")[1])

\* C12: the enum of a collapsed node is the intersection of the enum sets of
\* the branches that have one; when the intersection is empty, strict mode
\* records an error, leaves the chain as it was and does not return normally,
\* and lenient mode warns and keeps the first branch's enum.
C12_EnumIsIntersection ==
    /\ \A i \in 1..Len(step_events) :
          /\ HeldAt(step_events[i]) = step_events[i].after
          /\ Has(step_events[i].after, "enum") = (EnumsOf(step_events[i].branches) # {})
          /\ (EnumsOf(step_events[i].branches) # {} =>
                IF AllowedByAll(step_events[i].branches) # {}
                THEN Range(step_events[i].after["enum"])
                        = AllowedByAll(step_events[i].branches)
                ELSE /\ ~strict
                     /\ WarnedOf(step_events[i], "enum_empty")
                     /\ Range(step_events[i].after["enum"])
                            = FirstEnum(step_events[i].branches))
    /\ \A i \in 1..Len(step_failures) :
          \E r \in {BranchesOf(step_failures[i])} :
            (/\ r.exc = ""
             /\ validate_scalar_types(r.branches).exc = ""
             /\ Collect(r.branches, "pattern") = <<>>
             /\ EnumsOf(r.branches) # {}
             /\ AllowedByAll(r.branches) = {}) =>
                /\ strict
                /\ step_failures[i].kind = "enum_empty"
                /\ LeftAlone(step_failures[i])
    /\ \A i \in 1..Len(errors) :
          errors[i].kind = "enum_empty" => strict /\ pc # "returned"

\* a chain has collapsed whose two enums share some values and not others
C12_Witness ==
    \E i \in 1..Len(step_events) :
        /\ Cardinality(EnumsOf(step_events[i].branches)) = 2
        /\ AllowedByAll(step_events[i].branches) # {}
        /\ \A e \in EnumsOf(step_events[i].branches) :
              e # AllowedByAll(step_events[i].branches)

-----------------------------------------------------------------------------
(* The claims about the Document Graph Index *)

\* C6: for every loaded document that declares its own identifier, node_for
\* of the document's URI returns that document, whatever else was loaded.
C6_NodeForReturnsDocument ==
    (pc = "answered" /\ query.kind = "document" /\ Has(files[query.file], "$id"))
        => answer = Place(query.file, <<>>)

\* C7: node_for of a document's URI followed by "#" and a JSON Pointer into
\* the document returns the object the pointer leads to from the document's
\* root; stated for the documents whose URI leads to the document itself.
C7_NodeForFollowsPointer ==
    (/\ pc = "answered" /\ query.kind = "pointer"
     /\ node_for(index, query.uri) = Place(query.file, <<>>))
        => answer = Place(query.file, query.path)

\* C8: resolving a pure-fragment reference against a document URI gives that
\* URI followed by the fragment, from resolve_ref as one string and from
\* resolve_uri as the pair (URI, fragment).
C8_FragmentResolvesAgainstBase ==
    pc = "answered" =>
        /\ (query.kind = "resolve_ref" => answer.uri = query.uri \o query.ref)
        /\ (query.kind = "resolve_uri" => answer.pair = <<query.uri, query.ref>>)

-----------------------------------------------------------------------------
(* The claims about alias synthesis, field mapping and rewriting *)

\* the alias emit_inline_allof_aliases synthesizes for an inline refinement
SynthesizedAlias(info) ==
    fqn_of(class_to_module_name(info.origin_file),
           info.parent_class \o <<"_">> \o info.property_name)

\* the key of field p of type T in the field map
FieldKeyOf(info) ==
    info.parent_class \o <<".">> \o sanitize_field_name(info.property_name)

\* C13: once the field map is built, every inline refinement the collapser
\* recorded, on property p of the document whose type name is T, has field
\* T.p mapped with the direct slot to the synthesized alias T_p of its own
\* document.
C13_InlineRefinementIsMapped ==
    pc = "mapped" =>
        \A i \in 1..Len(inline_allofs) :
            /\ FieldKeyOf(inline_allofs[i]) \in DOMAIN slas.field_map
            /\ slas.field_map[FieldKeyOf(inline_allofs[i])].slot = "self"
            /\ slas.field_map[FieldKeyOf(inline_allofs[i])].alias_fqn
                    = SynthesizedAlias(inline_allofs[i])

\* the references a property schema holds in its container positions, each with
\* the slot of its position
RefPositions(node) ==
    (IF Has(node, "$ref") THEN {[ref |-> node["$ref"], slot |-> "self"]} ELSE {})
    \cup (IF Has(node, "items") /\ Has(node["items"], "$ref")
          THEN {[ref |-> node["items"]["$ref"], slot |-> "list_item"]} ELSE {})
    \cup (IF Has(node, "additionalProperties") /\ Has(node["additionalProperties"], "$ref")
          THEN {[ref |-> node["additionalProperties"]["$ref"], slot |-> "dict_value"]}
          ELSE {})
    \cup UNION {{[ref |-> node[key][i]["$ref"], slot |-> "union_member"] :
                    i \in {j \in 1..Len(node[key]) : Has(node[key][j], "$ref")}} :
                key \in {"oneOf", "anyOf", "allOf"} \cap DOMAIN node}

\* the properties of the titled documents, each with the type name of its
\* document and the document's URI
PropertiesOf(dir, url) ==
    UNION {{[model_name |-> dir[f]["title"], name |-> n, node |-> dir[f]["properties"][n],
             doc_uri |-> doc_uri_of(dir[f], f, url)] : n \in DOMAIN dir[f]["properties"]} :
            f \in {g \in DOMAIN dir : Has(dir[g], "title") /\ Has(dir[g], "properties")}}

\* the URI of the target of a same-document reference "#..." made in a document
SameDocumentTarget(doc_uri, ref) == doc_uri \o ref

\* C14: once the field map is built, a property that refers to an alias-mapped
\* definition of its own document is mapped to that alias with the slot of the
\* position the reference sits in: direct for the property itself,
\* list-element under items, map-value under additionalProperties,
\* union-member inside oneOf/anyOf/allOf.
C14_SlotOfContainerPosition ==
    pc = "mapped" =>
        \A prop \in PropertiesOf(files, base_url) :
            \A pos \in RefPositions(prop.node) :
                (/\ StartsWith(pos.ref, <<"#">>)
                 /\ SameDocumentTarget(prop.doc_uri, pos.ref) \in DOMAIN slas.ref_map)
                => \E key \in {prop.model_name \o <<".">> \o sanitize_field_name(prop.name)} :
                        /\ key \in DOMAIN slas.field_map
                        /\ slas.field_map[key].slot = pos.slot
                        /\ slas.field_map[key].alias_fqn
                                = slas.ref_map[SameDocumentTarget(prop.doc_uri, pos.ref)]


\* the annotation is one of the containers list, set or map
IsContainer(ann) ==
    /\ ann.node = "Subscript"
    /\ ann.value.id \in {S_List, S_list, S_Set, S_set, S_Dict, S_dict}

\* the annotation is optional: Optional[T] or T | None
IsOptional(ann) ==
    \/ ann.node = "Subscript" /\ ann.value.id = S_Optional
    \/ ann.node = "BinOp" /\ ann.right = NoneConstant

\* what an optional wraps, and what a container holds
Wrapped(ann) == IF ann.node = "BinOp" THEN ann.left ELSE ann.slice
Held(ann) == IF ann.slice.node = "Tuple" THEN ann.slice.elts[2] ELSE ann.slice

RECURSIVE ElementType(_)
\* the element type of an annotation: what is left under its optional
\* wrapping and its containers
ElementType(ann) ==
    IF IsOptional(ann) THEN ElementType(Wrapped(ann))
    ELSE IF IsContainer(ann) THEN ElementType(Held(ann))
    ELSE ann

RECURSIVE ElementSlot(_)
\* the slot of the element type: that of the innermost container, self without
\* a container
ElementSlot(ann) ==
    IF IsOptional(ann) THEN ElementSlot(Wrapped(ann))
    ELSE IF IsContainer(ann)
    THEN IF IsContainer(Held(ann)) \/ IsOptional(Held(ann)) THEN ElementSlot(Held(ann))
         ELSE IF ann.value.id \in {S_Dict, S_dict} THEN "dict_value" ELSE "list_item"
    ELSE "self"

RECURSIVE WithElementType(_, _)
\* the annotation with its element type replaced and every other part kept
WithElementType(ann, alias) ==
    IF ann.node = "BinOp" /\ IsOptional(ann)
    THEN BitOr(WithElementType(ann.left, alias), ann.right)
    ELSE IF IsOptional(ann) THEN Subscript(ann.value, WithElementType(ann.slice, alias))
    ELSE IF IsContainer(ann)
    THEN IF ann.slice.node = "Tuple"
         THEN Subscript(ann.value,
                        TupleOf(<<ann.slice.elts[1], WithElementType(ann.slice.elts[2], alias)>>))
         ELSE Subscript(ann.value, WithElementType(ann.slice, alias))
    ELSE alias

\* the statement visited is a field with a target whose element type is a
\* scalar an alias stands for, the target's slot being that of the element type
MappedElement ==
    /\ mode = "rewrite" /\ pc = "visited"
    /\ query.class_name \o <<".">> \o query.field = field_key(query.target)
    /\ ElementType(query.annotation) \in ScalarAnnotations \ {Name(S_bool)}
    /\ query.target.slot = ElementSlot(query.annotation)

\* C15: the rewrite pass replaces a mapped field's element type with its alias
\* and keeps the optional wrapping and the container nesting: a list, set or
\* map of X becomes a list, set or map of the alias with every other part of
\* the annotation unchanged, and a direct scalar becomes the alias.
C15_RewriteKeepsWrappingAndNesting ==
    MappedElement =>
        answer.annotation
            = WithElementType(query.annotation, Name(alias_name_of(query.target.alias_fqn)))

\* the ten shape tags
ShapeTags ==
    {"scalar_str", "scalar_number", "enum_str", "union_scalar_str", "object",
     "array", "map", "mixed", "ref", "unknown"}

\* C16: classify_shape is total and free of side effects: for every schema
\* node, a node whose type keyword is a list of type names or is missing
\* included, it returns exactly one of the ten shape tags, never raises, and
\* never modifies the node.
C16_ClassifyShapeIsTotal ==
    (mode = "classify" /\ pc = "classified") =>
        /\ answer.exc = ""
        /\ answer.shape \in ShapeTags
        /\ answer.schema = query.schema

\* the titled nodes of the loaded files that carry a name override
OverriddenNodes ==
    UNION {{t.value : t \in {x \in {Traverse(files[name], "node", path, <<>>) :
                                       path \in PathsFrom(files[name], "node", <<>>)} :
                                /\ x.kind = "node"
                                /\ Has(x.value, "title")
                                /\ Has(x.value, "x-python-class-name")}} :
           name \in DOMAIN files}

\* C17: index construction fails at once whenever a title-bearing node carries
\* a name override that is empty, not identifier-shaped, a reserved word, or
\* starts with an underscore.
C17_InvalidOverrideIsFatal ==
    mode = "index" =>
        \A node \in OverriddenNodes :
            (\/ node["x-python-class-name"] = <<>>
             \/ ~isidentifier(node["x-python-class-name"])
             \/ node["x-python-class-name"] \in PythonKeywords
             \/ node["x-python-class-name"][1] = "_") => index.exited

\* no value occurs twice in the list
NoRepeat(seq) == \A i, j \in 1..Len(seq) : seq[i] = seq[j] => i = j

\* C18: alias names are unique within a module: no alias module written (a
\* per-document module, an inline _types module or common_types) holds two
\* aliases with the same name, whatever the titles, definition names and
\* inline refinements of the input documents.
C18_AliasNamesUniqueInModule ==
    (mode = "collapse" /\ pc \in {"emitted", "mapped"}) =>
        \A module \in DOMAIN slas.alias_files : NoRepeat(slas.alias_files[module])

\* the nodes of the indexed documents that hold a reference
RefPlaces(ix) == {pl \in DOMAIN ix.subschema_bases : Has(Deref(ix.parsed, pl), "$ref")}

\* the reference of the node at pl, resolved against the base URI of that node
AgainstContainingBase(ix, pl) ==
    resolve_ref(Deref(ix.parsed, pl)["$ref"], ix.subschema_bases[pl])

\* the reference branches of the chains process_allof_collapse was called on
RefBranches ==
    {pl \in RefPlaces(caller_index) :
        /\ Len(pl.path) >= 2
        /\ pl.path[Len(pl.path) - 1] = Spell["allOf"]}

\* the chain a branch belongs to
ChainPlace(pl) == Place(pl.file, SubSeq(pl.path, 1, Len(pl.path) - 2))

\* the keywords a collapsed chain takes over from a branch
ConstraintKeywords ==
    {"type", "minLength", "maxLength", "pattern", "format", "minimum", "maximum", "enum"}

\* the reference of the branch pl was not reported as unresolvable
Resolved(pl) ==
    \A i \in 1..Len(errors) :
        ~(/\ errors[i].kind = "cannot_resolve"
          /\ errors[i].file = pl.file
          /\ errors[i].ref = Deref(caller_index.parsed, pl)["$ref"]
          /\ errors[i].json_pointer = <<"#">> \o PointerOf(ChainPlace(pl).path))

\* when the reference of the branch pl leads to a node from the base URI of
\* the branch, the reference is not reported as unresolvable and the chain,
\* once collapsed, has every constraint keyword of that node
MergedFromContainingBase(pl) ==
    \A target \in {node_for(caller_index, AgainstContainingBase(caller_index, pl))} :
        ~IsNone(target) =>
            /\ Resolved(pl)
            /\ ~Has(Deref(files, ChainPlace(pl)), "allOf")
                => ConstraintKeywords \cap DOMAIN Deref(caller_index.parsed, target)
                      \subseteq DOMAIN Deref(files, ChainPlace(pl))

\* C19: every reference is resolved against the base URI of the node that
\* contains it: a reference inside a subtree rebased by a nested identifier is
\* resolved against that identifier, not against the document's URI, by the
\* branch resolution of the collapser and by the reference collection of the
\* alias synthesizer.
C19_ResolvedAgainstContainingBase ==
    /\ (mode = "collapse" /\ pc = "returned" /\ run = 1) =>
            \A pl \in RefBranches : MergedFromContainingBase(pl)
    /\ (mode = "collapse" /\ pc = "emitted") =>
            slas.all_refs = {AgainstContainingBase(index, pl) : pl \in RefPlaces(index)}

\* the chains process_allof_collapse was called on
ChainPlaces ==
    {pl \in DOMAIN caller_index.subschema_bases :
        Has(Deref(caller_index.parsed, pl), "allOf")}

\* the chains the reference branches of the chain c lead to
ChainsReferredTo(c) ==
    {node_for(caller_index, AgainstContainingBase(caller_index, b)) :
        b \in {x \in RefBranches : ChainPlace(x) = c}} \cap ChainPlaces

RECURSIVE ChainsReached(_, _)
\* the chains reached from the chains of front, directly or through other chains
ChainsReached(front, seen) ==
    IF front \subseteq seen THEN seen
    ELSE ChainsReached(UNION {ChainsReferredTo(c) : c \in front \ seen}, seen \cup front)

\* the chains whose reference branch leads back to the chain itself
CircularChains == {c \in ChainPlaces : c \in ChainsReached(ChainsReferredTo(c), {})}

\* the circular reference of the chain c is among the errors
ReportedCircular(c) ==
    \E i \in 1..Len(errors) :
        /\ errors[i].kind = "circular"
        /\ errors[i].file = c.file
        /\ errors[i].json_pointer = <<"#">> \o PointerOf(c.path)

\* C20: a refinement chain whose reference branch leads back to the chain
\* itself, directly or through other chains, is detected as a circular
\* reference and reported as an error; such a chain is never collapsed.
C20_CircularChainIsReported ==
    mode = "collapse" =>
        \A c \in CircularChains :
            /\ Has(Deref(files, c), "allOf")
            /\ (pc \in {"raised", "returned"} /\ run = 1) => ReportedCircular(c)

\* the branches cross in one of the three ways the satisfiability pass looks for
StructurallyImpossible(branches) ==
    \/ \E lo \in Stated(branches, "minLength"), hi \in Stated(branches, "maxLength") :
            lo > hi
    \/ \E lo \in Stated(branches, "minimum"), hi \in Stated(branches, "maximum") :
            lo > hi
    \/ \E lo \in Stated(branches, "exclusiveMinimum"),
           hi \in Stated(branches, "exclusiveMaximum") : lo >= hi

\* the impossible combination of the chain at json_pointer of file was warned about
WarnedImpossible(file, json_pointer) ==
    \E w \in warned :
        w.kind = "impossible" /\ w.file = file /\ w.json_pointer = json_pointer

\* C21: after merging, every chain whose branches together give a structurally
\* impossible combination (minLength above maxLength, minimum above maximum,
\* exclusiveMinimum not below exclusiveMaximum) is reported: as an error in
\* strict mode, so that it is not collapsed, and as a warning in lenient mode.
C21_ImpossibleCombinationIsReported ==
    \A i \in 1..Len(step_events) :
        StructurallyImpossible(step_events[i].branches) =>
            /\ ~strict
            /\ WarnedImpossible(step_events[i].file, step_events[i].json_pointer)

\* the nodes of the collapsed documents that carry the validate-all pattern list
ValidateAllNodes ==
    {pl \in Range(Flatten([i \in 1..Len(index.doc_order) |->
                              nodes_of_doc(index, index.doc_order[i])])) :
        Has(Deref(index.parsed, pl), "_validator_patterns")}

\* C22: once the alias modules are written, every refinement chain whose
\* collapsed node carries the validate-all pattern list has a validator
\* function of its own among those the Alias Synthesizer generates.
C22_ValidateAllChainGetsValidator ==
    (pc \in {"emitted", "mapped"} /\ slas.exc = "") =>
        Len(validators_needed(index)) >= Cardinality(ValidateAllNodes)

\* the exportable symbols of the loaded documents whose node is found and
\* classifies as one of the scalar shapes
ScalarExports ==
    UNION {{e \in Range(exportables(index, u).exports) :
                \E found \in {node_for(index, e.uri)} :
                    /\ ~Has(found, "exc") /\ ~IsNone(found)
                    /\ \E c \in {classify_shape(Deref(index.parsed, found))} :
                           c.exc = "" /\ c.shape \in alias_shapes} :
            u \in DOMAIN index.docs}

\* a definition that is unreferenced, untitled and nested in a document that has a title
BuriedDefinition(e) ==
    /\ StartsWith(e.fragment, <<"#", "/">> \o Spell["$defs"] \o <<"/">>)
    /\ ~Has(Deref(index.parsed, node_for(index, e.uri)), "title")
    /\ e.uri \notin slas.all_refs
    /\ \E u \in DOMAIN index.docs :
           /\ e \in Range(exportables(index, u).exports)
           /\ Has(Deref(index.parsed, index.docs[u]), "title")

\* the alias module of the symbol's origin assigns the symbol's name
AliasEmitted(e) ==
    /\ e.module \in DOMAIN slas.modules_created
    /\ e.name \in Range(slas.modules_created[e.module])
    /\ e.uri \in DOMAIN slas.ref_map

TitledUnreferencedDefinition(e) ==
    /\ StartsWith(e.fragment, <<"#", "/">> \o Spell["$defs"] \o <<"/">>)
    /\ Has(Deref(index.parsed, node_for(index, e.uri)), "title")
    /\ e.uri \notin slas.all_refs

UncollapsedReferences(ev) ==
    {k \in 1..Len(ev.branches) :
        Has(ev.node["allOf"][k], "$ref") /\ Has(ev.branches[k], "allOf")}

\* C24: no chain is collapsed while one of its references still resolves to a
\* chain that has not been collapsed, whether or not a sibling branch states
\* the type, so the referenced definition's constraints are never left out of
\* the merged node.
C24_ReferencedChainCollapsesFirst ==
    \A i \in 1..Len(step_events) : UncollapsedReferences(step_events[i]) = {}

\* the chain of event ev has exactly two patterns, both UUID patterns whose
\* version sets meet, and its collapsed node keeps a single pattern
SpecializedPattern(ev) ==
    \E pats \in {Collect(ev.branches, "pattern")} :
        /\ Len(pats) = 2
        /\ IsUuidPattern(pats[1]) /\ IsUuidPattern(pats[2])
        /\ VersionSetOf(pats[1]) \cap VersionSetOf(pats[2]) # {}
        /\ Has(ev.merged, "pattern") /\ ~Has(ev.merged, "_validator_patterns")

\* C25: whenever a single pattern is kept for the two UUID patterns of a
\* chain, the versions the kept pattern allows are exactly the versions both
\* patterns allow, also when neither version set contains the other.
C25_KeptPatternAllowsTheIntersection ==
    \A i \in 1..Len(step_events) :
        SpecializedPattern(step_events[i]) =>
            \E pats \in {Collect(step_events[i].branches, "pattern")} :
                extract_uuid_version_set(step_events[i].merged["pattern"]).set
                    = VersionSetOf(pats[1]) \cap VersionSetOf(pats[2])

\* the keywords by which a branch constrains the values of a scalar
ValueConstraints ==
    {"pattern", "format", "enum", "minLength", "maxLength", "minimum", "maximum",
     "exclusiveMinimum", "exclusiveMaximum", "multipleOf"}

\* C26: every constraint keyword that a branch of a collapsed chain carries,
\* exclusiveMinimum, exclusiveMaximum and multipleOf included, is a keyword of
\* the node that replaces the chain.
C26_CollapseKeepsEveryConstraint ==
    \A i \in 1..Len(step_events) : \A k \in 1..Len(step_events[i].branches) :
        (DOMAIN step_events[i].branches[k] \cap ValueConstraints)
            \subseteq DOMAIN step_events[i].after

\* the absolute URI the Field Mapper looks up for a reference: the two parts
\* resolve_uri answers, put together again
MapperUri(base, ref) ==
    \* `full_uri = abs_uri + (frag or "")`
    resolve_uri(base, ref)[1] \o resolve_uri(base, ref)[2]

\* C27: once the field map is built, for every reference a property of a loaded
\* document holds, resolve_uri gives the absolute URI that the index's
\* resolve_ref gives for it, and when that URI has an alias the property is
\* mapped to the alias, whatever the scheme of the document URI.
C27_MapperResolvesAsIndex ==
    pc = "mapped" =>
        \A prop \in PropertiesOf(files, base_url) :
            \A pos \in RefPositions(prop.node) :
                \E uri \in {resolve_ref(pos.ref, prop.doc_uri)} :
                    /\ MapperUri(prop.doc_uri, pos.ref) = uri
                    /\ uri \in DOMAIN slas.ref_map =>
                        \E key \in {prop.model_name \o <<".">>
                                        \o sanitize_field_name(prop.name)} :
                            /\ key \in DOMAIN slas.field_map
                            /\ slas.field_map[key].alias_fqn = slas.ref_map[uri]

\* the top-level properties that have the name of the property of an inline
\* refinement and belong to another document than the refinement
NamesakesOf(info) ==
    {prop \in PropertiesOf(files, base_url) :
        /\ prop.name = info.property_name
        /\ prop.doc_uri # doc_uri_of(files[info.origin_file], info.origin_file, base_url)}

\* C28: once the field map is built, no top-level property of another document
\* that has the name of an inline refinement's property is mapped to the alias
\* synthesized for that refinement.
C28_InlineAliasStaysWithItsProperty ==
    pc = "mapped" =>
        \A i \in 1..Len(inline_allofs) : \A prop \in NamesakesOf(inline_allofs[i]) :
            \E key \in {prop.model_name \o <<".">> \o sanitize_field_name(prop.name)} :
                key \in DOMAIN slas.field_map =>
                    slas.field_map[key].alias_fqn # SynthesizedAlias(inline_allofs[i])

\* C29: every URI of the index's document table, the URIs registered for nested
\* identifiers included, has an origin file; exportables answers a list for
\* each of them, and alias emission does not end with a KeyError.
C29_EveryDocumentHasOriginFile ==
    /\ DOMAIN index.docs \subseteq DOMAIN index.origin_files
    /\ \A u \in DOMAIN index.docs : exportables(index, u).exc = ""
    /\ pc = "emitted" => slas.exc # "KeyError"

\* C30: after load, no two files that were parsed have the same document URI,
\* and the index answers every file's document URI with that file's document,
\* also when the files have the same name in different directories.
C30_LoadKeepsEveryDocument ==
    ~index.exited =>
        \A f \in DOMAIN files :
            \E uri \in {doc_uri_of(files[f], f, base_url)} :
                /\ \A g \in DOMAIN files \ {f} : doc_uri_of(files[g], g, base_url) # uri
                /\ uri \in DOMAIN index.docs
                /\ index.docs[uri] = Place(f, <<>>)

=============================================================================
